---- MODULE Spec2Model ----
(***************************************************************************)
(* Model of the api-testing-demo repository.                               *)
(*                                                                         *)
(* Spec, SpecLib : the notification utility utils/slack-notify.js          *)
(*                 (parseTestResults, createSlackMessage,                  *)
(*                 sendSlackNotification, main)                            *)
(* SpecSchema    : the validateSchema helper of the schema tests           *)
(* SpecEndpoints : the endpoint registry api/endpoints.js and the URLs     *)
(*                 the tests build from it                                 *)
(* SpecRunner    : a Playwright run of a describe block whose cases share  *)
(*                 one id, under playwright.config.js                      *)
(* SpecLoad      : a k6 run of the load, stress or spike script            *)
(* SpecRetry, SpecRetryFair : a call of requestWithRetry                   *)
(* SpecFan       : a Promise.all fan-out of the concurrency tests          *)
(* SpecFlow      : an E2E workflow case (create, read, update, delete)     *)
(* SpecBrowse, SpecBrowseFair : the paginated browse of the E2E tests      *)
(* SpecIds       : calls of generatePetId of the pet tests                 *)
(*                                                                         *)
(* JavaScript values are tagged records, so that undefined, null, NaN,     *)
(* numbers and strings can be told apart:                                  *)
(*   Undefined, Null, NaN, Num(k) (the number k/1000, fixed point with     *)
(*   three decimals), Text(s) (a string kept whole), Chars(seq) (a string  *)
(*   kept as its characters, for the strings that are parsed).             *)
(* The Chinese labels of the message texts are written in ASCII.           *)
(***************************************************************************)
EXTENDS Integers, Sequences, FiniteSets, TLC

(***************************************************************************)
(* Bounds of the model                                                     *)
(***************************************************************************)
\* largest passed / failed / skipped count given to createSlackMessage directly
MaxPassed == 5
MaxFailed == 2
MaxSkipped == 2
\* how many times a library caller may call sendSlackNotification
MaxSends == 2

\* iterations of a k6 script that are followed
MaxIterations == 2

\* largest maxRetries given to requestWithRetry
MaxRetriesGiven == 5

\* largest number of requests of a Promise.all fan-out
MaxFanOut == 3

(***************************************************************************)
(* JavaScript values                                                       *)
(***************************************************************************)
Undefined == [t |-> "undefined"]
Null == [t |-> "null"]
NaN == [t |-> "NaN"]
Num(k) == [t |-> "number", milli |-> k]
N(n) == Num(n * 1000)
Text(s) == [t |-> "string", s |-> s]
Chars(cs) == [t |-> "string", chars |-> cs]

IsNum(v) == v.t = "number"

\* ToBoolean: undefined, null, NaN, 0 and the empty string are falsy
Falsy(v) ==
    \/ v.t \in {"undefined", "null", "NaN"}
    \/ v.t = "number" /\ v.milli = 0
    \/ v.t = "string" /\ "s" \in DOMAIN v /\ v.s = ""
    \/ v.t = "string" /\ "chars" \in DOMAIN v /\ v.chars = <<>>

Truthy(v) == ~Falsy(v)

\* a || b
Or(a, b) == IF Truthy(a) THEN a ELSE b

\* obj?.field : undefined when obj is undefined or null or lacks the field
OptGet(obj, field) ==
    IF obj.t = "object" /\ field \in DOMAIN obj THEN obj[field] ELSE Undefined

\* a + b on numbers
JsAdd(a, b) == IF IsNum(a) /\ IsNum(b) THEN Num(a.milli + b.milli) ELSE NaN

\* a > 0 ; every comparison with NaN is false
Gt0(a) == IsNum(a) /\ a.milli > 0

\* a / 1000 ; the model keeps three decimals, inputs are whole numbers
JsDiv1000(a) == IF IsNum(a) THEN Num(a.milli \div 1000) ELSE NaN

\* `${v}` for the values that reach a template literal (the numbers that
\* reach one are whole)
Template(v) ==
    CASE v.t = "undefined" -> "undefined"
      [] v.t = "null" -> "null"
      [] v.t = "NaN" -> "NaN"
      [] v.t = "string" -> v.s
      [] v.t = "number" /\ v.milli % 1000 = 0 -> ToString(v.milli \div 1000)

(***************************************************************************)
(* Number.prototype.toFixed(1): the nearest tenth, the larger one on a tie *)
(***************************************************************************)
FixedText(tenths) == ToString(tenths \div 10) \o "." \o ToString(tenths % 10)

ToFixed1(v) == IF IsNum(v) THEN FixedText((v.milli + 50) \div 100) ELSE "NaN"

(***************************************************************************)
(* parseInt(s, 10) and parseFloat(s) on strings of digits, '.', 'x', ' '   *)
(***************************************************************************)
Digits == {"0", "1", "2", "3", "4", "5", "6", "7", "8", "9"}

DigitVal(c) ==
    CASE c = "0" -> 0 [] c = "1" -> 1 [] c = "2" -> 2 [] c = "3" -> 3
      [] c = "4" -> 4 [] c = "5" -> 5 [] c = "6" -> 6 [] c = "7" -> 7
      [] c = "8" -> 8 [] c = "9" -> 9

RECURSIVE SkipSpace(_)
SkipSpace(cs) ==
    IF cs # <<>> /\ Head(cs) = " " THEN SkipSpace(Tail(cs)) ELSE cs

\* the longest prefix of digits
RECURSIVE DigitPrefix(_)
DigitPrefix(cs) ==
    IF cs # <<>> /\ Head(cs) \in Digits
    THEN <<Head(cs)>> \o DigitPrefix(Tail(cs))
    ELSE <<>>

RECURSIVE DigitsValue(_, _)
DigitsValue(ds, acc) ==
    IF ds = <<>> THEN acc ELSE DigitsValue(Tail(ds), acc * 10 + DigitVal(Head(ds)))

ParseInt(v) ==
    LET cs == SkipSpace(v.chars)
        ds == DigitPrefix(cs)
    IN IF ds = <<>> THEN NaN ELSE N(DigitsValue(ds, 0))

\* the fraction digits as thousandths (at most three digits are given)
FractionMilli(fs) ==
    CASE Len(fs) = 0 -> 0
      [] Len(fs) = 1 -> DigitsValue(fs, 0) * 100
      [] Len(fs) = 2 -> DigitsValue(fs, 0) * 10
      [] OTHER -> DigitsValue(SubSeq(fs, 1, 3), 0)

ParseFloat(v) ==
    LET cs == SkipSpace(v.chars)
        ds == DigitPrefix(cs)
        rest == SubSeq(cs, Len(ds) + 1, Len(cs))
        fs == IF rest # <<>> /\ Head(rest) = "." THEN DigitPrefix(Tail(rest)) ELSE <<>>
    IN IF ds = <<>> /\ fs = <<>> THEN NaN
       ELSE Num(DigitsValue(ds, 0) * 1000 + FractionMilli(fs))

(***************************************************************************)
(* createSlackMessage(results, options = {})                               *)
(***************************************************************************)
Thrown(kind) == [t |-> "thrown", error |-> kind]

\* mutant: >= written for >
IsFailure_Ge0(failed) == IsNum(failed) /\ failed.milli >= 0

\* failed > 0 ? ... : ...   (status, emoji and color use the same test)
IsFailure(failed) == Gt0(failed)

\* mutant: the skipped tests are left out of the total
TotalOf_NoSkipped(passed, failed, skipped) == JsAdd(passed, failed)

\* passed + failed + skipped
TotalOf(passed, failed, skipped) == JsAdd(JsAdd(passed, failed), skipped)

\* ((passed / total) * 100).toFixed(1) ; 0/0 is NaN and n/0 is Infinity
PercentFixed1(passed, total) ==
    IF ~(IsNum(passed) /\ IsNum(total)) THEN "NaN"
    ELSE IF total.milli = 0
         THEN (IF passed.milli = 0 THEN "NaN" ELSE "Infinity")
         ELSE FixedText((2000 * passed.milli + total.milli) \div (2 * total.milli))

\* mutant: the division is not guarded by total > 0
PassRate_Unguarded(passed, total) == PercentFixed1(passed, total)

\* total > 0 ? ((passed / total) * 100).toFixed(1) : 0
PassRate(passed, total) ==
    IF Gt0(total) THEN PercentFixed1(passed, total) ELSE Template(N(0))

\* options.runUrl || process.env.GITHUB_SERVER_URL ? `...` : null
\* ( || binds tighter than ?: , so the template is the value whenever either
\* is truthy)
RunUrl(options, penv) ==
    IF Truthy(Or(OptGet(options, "runUrl"), penv.GITHUB_SERVER_URL))
    THEN Text(Template(penv.GITHUB_SERVER_URL) \o "/"
              \o Template(penv.GITHUB_REPOSITORY) \o "/actions/runs/"
              \o Template(penv.GITHUB_RUN_ID))
    ELSE Null

ActionsBlock(runUrl) ==
    [type |-> "actions",
     elements |-> <<[type |-> "button", text |-> "view report",
                     url |-> runUrl, style |-> "primary"]>>]

CreateSlackMessage(results, options, penv) ==
    IF results.t # "object" THEN Thrown("TypeError")
    ELSE IF OptGet(results, "duration").t \in {"undefined", "null"}
    THEN Thrown("TypeError")
    ELSE
    LET passed == OptGet(results, "passed")
        failed == OptGet(results, "failed")
        skipped == OptGet(results, "skipped")
        duration == OptGet(results, "duration")
        total == TotalOf(passed, failed, skipped)
        status == IF IsFailure(failed) THEN "failure" ELSE "success"
        emoji == IF IsFailure(failed) THEN ":x:" ELSE ":white_check_mark:"
        color == IF IsFailure(failed) THEN "#dc3545" ELSE "#28a745"
        projectName == Or(OptGet(options, "projectName"), Text("API Testing Demo"))
        branch == Or(Or(OptGet(options, "branch"), penv.GITHUB_REF_NAME), Text("main"))
        runUrl == RunUrl(options, penv)
        blocks ==
          << [type |-> "header",
              text |-> emoji \o " " \o Template(projectName) \o " - test results"],
             [type |-> "section",
              fields |-> << "*status:* " \o (IF status = "success"
                                             THEN "passed :tada:"
                                             ELSE "failed :warning:"),
                            "*branch:* " \o Template(branch),
                            "*passed:* " \o Template(passed) \o " tests",
                            "*failed:* " \o Template(failed) \o " tests",
                            "*skipped:* " \o Template(skipped) \o " tests",
                            "*duration:* " \o ToFixed1(duration) \o " s" >>],
             [type |-> "context",
              text |-> "total: " \o Template(total) \o " | pass rate: "
                       \o PassRate(passed, total) \o "%"] >>
    IN [t |-> "object",
        color |-> color,
        blocks |-> IF Truthy(runUrl) THEN Append(blocks, ActionsBlock(runUrl))
                   ELSE blocks]

(***************************************************************************)
(* State                                                                   *)
(***************************************************************************)
VARIABLES
    caller,      \* "main": the file is run; "lib": the exports are called
    env,         \* process.env
    argv,        \* process.argv.slice(2)
    file,        \* what the file system holds at the path argv[0]
    pc,          \* position of the run
    source,      \* the branch of main that produced results
    results,     \* the TestRunSummary (main's `results`, or the argument)
    options,     \* the options given to createSlackMessage
    message,     \* the value createSlackMessage returned
    sent,        \* the argument of the current sendSlackNotification call
    response,    \* how the last fetch settled
    sendRet,     \* what the last sendSlackNotification call returned
    createCalls, \* calls of createSlackMessage
    sendCalls,   \* calls of sendSlackNotification
    fetchCalls,  \* calls of fetch
    posts        \* calls of fetch made by the current sendSlackNotification call

\* validateSchema(data, schema)
VARIABLES
    vsData,      \* the data argument
    vsSchema,    \* the schema argument, as the entries Object.entries yields
    vsOutcome    \* "none" before the call, then how the call ended

schemaVars == <<vsData, vsSchema, vsOutcome>>

\* the variables of the parts that a run of the notifier leaves alone
VARIABLES
    epUse,       \* the registry read: service, endpoint name, called or not, by whom
    epArg,       \* the identifier given to a path function
    epOut        \* "none" before the read, then the path, the URL or the error

epVars == <<epUse, epArg, epOut>>

VARIABLES
    rCI,         \* process.env.CI when the Playwright configuration is loaded
    rSuite,      \* the describe block that runs: "pet" or "order"
    rPc,         \* "start", "beforeAll" (a new worker), "test", "done"
    rConfig,     \* the loaded configuration: retries and workers
    rId,         \* testPetId / testOrderId, set by beforeAll
    rStore0,     \* the ids the server held when the run began
    rStore,      \* the ids the server holds
    rNext,       \* index of the case to execute
    rAttempt,    \* retry index of that case
    rRuns,       \* per case: how many times it was executed
    rUsed,       \* per case: the id its last execution requested
    rStatus,     \* per case: the status of its last response, 0 before
    rVerdict     \* per case: "none", "passed" or "failed"

runVars == <<rCI, rSuite, rPc, rConfig, rId, rStore0, rStore, rNext, rAttempt, rRuns,
             rUsed, rStatus, rVerdict>>

VARIABLES
    kScript,     \* the k6 script that runs: "load", "stress" or "spike"
    kPc,         \* "init", "running", "aborted" (setup threw), "teardown", "done"
    kLiveness,   \* the status the target gives to a request made by setup
    kSetupGets,  \* the requests setup has made
    kTimeline,   \* the stage timeline setup has logged
    kStage,      \* index of the stage that executes, 0 before the first
    kElapsed,    \* seconds of the stages that have ended
    kIterations, \* iterations of the default function so far
    kErrors,     \* errorRate.add(1) calls so far
    kReq,        \* position in the iteration under way: its next request, 0 if none
    kIter,       \* the last iteration: "none", "running", "slept" (its end), "thrown"
    kFailing,    \* requests of the last iteration that did not pass their checks
    kAdded,      \* errorRate.add(1) calls of the last iteration
    kMetrics     \* the samples of the custom metrics, the requests of the default
                 \* function and the checks that returned false

loadVars == <<kScript, kPc, kLiveness, kSetupGets, kTimeline, kStage, kElapsed,
              kIterations, kErrors, kReq, kIter, kFailing, kAdded, kMetrics>>

VARIABLES
    qMax,        \* requestWithRetry: maxRetries
    qDelay,      \* delay, in ms
    qPc,         \* "request" (awaiting request.get), "waiting" (awaiting the timer),
                 \* "returned", "thrown"
    qAttempt,    \* the loop variable attempt
    qRequests,   \* request.get calls made
    qLast,       \* the outcome of the last request
    qWaits,      \* the waitTime of every setTimeout made
    qClock,      \* the time, in ms since the call
    qFailedAt,   \* the time at which the last request failed
    qResult      \* what the call returned or threw

retryVars == <<qMax, qDelay, qPc, qAttempt, qRequests, qLast, qWaits, qClock, qFailedAt,
               qResult>>

VARIABLES
    fN,          \* Promise.all fan-out: the number of requests issued
    fPc,         \* "awaiting" (Promise.all pending), "asserting", "passed", "failed"
    fSettled,    \* per issued request: pending, its response, or its rejection
    fOrder,      \* the indexes of the requests in the order they completed
    fResponses   \* the array that await Promise.all(promises) yielded

fanVars == <<fN, fPc, fSettled, fOrder, fResponses>>

VARIABLES
    wKind,       \* the E2E workflow case: "pet", "order" or "user"
    wStep,       \* index of the step the case is at
    wIssued,     \* the names of the steps whose request was issued, in order
    wStatuses,   \* the statuses of the responses received, in order
    wEnd         \* "running", "returned" (early return), "failed", "completed"

flowVars == <<wKind, wStep, wIssued, wStatuses, wEnd>>

VARIABLES
    bPage,       \* the paginated browse: page, the next page to request
    bHasMore,    \* hasMore
    bPc,         \* "loop" (at the loop test), "await" (a request is out), "done", "failed"
    bRequested,  \* the _page parameters of the requests issued, in order
    bAnswers,    \* the answers received, in order
    bAllPosts    \* allPosts, as the bodies concatenated to it, in order

browseVars == <<bPage, bHasMore, bPc, bRequested, bAnswers, bAllPosts>>

VARIABLES
    gNow,        \* Date.now(), in ms after the first call of generatePetId
    gIds         \* the ids generatePetId returned, in order, less the time of the first call

idVars == <<gNow, gIds>>

otherVars == <<browseVars, idVars>>

scenarioVars == <<retryVars, fanVars, flowVars, otherVars>>

laterVars == <<schemaVars, epVars, runVars, loadVars, scenarioVars>>

baseVars == <<schemaVars, epVars, runVars, loadVars>>

notifierVars == <<caller, env, argv, file, pc, source, results, options, message, sent,
                  response, sendRet, createCalls, sendCalls, fetchCalls, posts>>

vars == <<caller, env, argv, file, pc, source, results, options, message, sent,
          response, sendRet, createCalls, sendCalls, fetchCalls, posts, laterVars>>

\* validateSchema is not being called
SchemaIdle == vsData = Undefined /\ vsSchema = <<>> /\ vsOutcome = "idle"

\* the endpoint registry is not being read
EpIdle == epUse = Undefined /\ epArg = Undefined /\ epOut = [t |-> "idle"]

\* no test run is under way
RunIdle ==
    /\ rCI = Undefined /\ rSuite = "none" /\ rPc = "idle"
    /\ rConfig = [t |-> "unloaded"] /\ rId = 0 /\ rStore0 = {} /\ rStore = {}
    /\ rNext = 0 /\ rAttempt = 0
    /\ rRuns = <<>> /\ rUsed = <<>> /\ rStatus = <<>> /\ rVerdict = <<>>

\* no k6 script is running
LoadIdle ==
    /\ kScript = "none" /\ kPc = "idle" /\ kLiveness = 0 /\ kSetupGets = 0
    /\ kTimeline = <<>> /\ kStage = 0 /\ kElapsed = 0 /\ kIterations = 0
    /\ kErrors = 0 /\ kReq = 0 /\ kIter = "none" /\ kFailing = 0 /\ kAdded = 0
    /\ kMetrics = [errors |-> <<>>, requestDuration |-> <<>>, requestCount |-> 0,
                   requests |-> 0, falseChecks |-> 0, method |-> "none"]

\* requestWithRetry is not being called
RetryIdle ==
    /\ qMax = 0 /\ qDelay = 0 /\ qPc = "idle" /\ qAttempt = 0 /\ qRequests = 0
    /\ qLast = [t |-> "none"] /\ qWaits = <<>> /\ qClock = 0 /\ qFailedAt = 0
    /\ qResult = [t |-> "none"]

\* no fan-out test case is running
FanIdle ==
    /\ fN = 0 /\ fPc = "idle" /\ fSettled = <<>> /\ fOrder = <<>> /\ fResponses = <<>>

\* no E2E workflow case is running
FlowIdle ==
    /\ wKind = "none" /\ wStep = 0 /\ wIssued = <<>> /\ wStatuses = <<>> /\ wEnd = "idle"

\* the paginated browse is not running
BrowseIdle ==
    /\ bPage = 0 /\ bHasMore = FALSE /\ bPc = "idle" /\ bRequested = <<>>
    /\ bAnswers = <<>> /\ bAllPosts = <<>>

\* generatePetId is not being called
IdsIdle == gNow = 0 /\ gIds = <<>>

OthersIdle == BrowseIdle /\ IdsIdle

ScenariosIdle == RetryIdle /\ FanIdle /\ FlowIdle /\ OthersIdle

\* nothing but a scenario of the advanced tests is running
BaseIdle == SchemaIdle /\ EpIdle /\ RunIdle /\ LoadIdle

LaterIdle == SchemaIdle /\ EpIdle /\ RunIdle /\ LoadIdle /\ ScenariosIdle

\* const SLACK_WEBHOOK_URL = process.env.SLACK_WEBHOOK_URL (read once at load)
SLACK_WEBHOOK_URL == env.SLACK_WEBHOOK_URL

(***************************************************************************)
(* Inputs                                                                  *)
(***************************************************************************)
WebhookValues == {Undefined, Text(""), Text("https://hooks.slack.test/services/T0")}

GithubEnvs ==
    { [GITHUB_SERVER_URL |-> Undefined, GITHUB_REPOSITORY |-> Undefined,
       GITHUB_RUN_ID |-> Undefined, GITHUB_REF_NAME |-> Undefined],
      [GITHUB_SERVER_URL |-> Text("https://github.com"), GITHUB_REPOSITORY |-> Undefined,
       GITHUB_RUN_ID |-> Undefined, GITHUB_REF_NAME |-> Undefined],
      [GITHUB_SERVER_URL |-> Text("https://github.com"), GITHUB_REPOSITORY |-> Text("o/r"),
       GITHUB_RUN_ID |-> Text("42"), GITHUB_REF_NAME |-> Text("dev")] }

TestPassedValues ==
    {Undefined, Chars(<<>>), Chars(<<"5">>), Chars(<<"1", "2">>), Chars(<<"x">>),
     Chars(<<" ", "3", "x">>)}
TestFailedValues == {Undefined, Chars(<<"1">>)}
TestSkippedValues == {Undefined, Chars(<<"2">>)}
TestDurationValues == {Undefined, Chars(<<"1", "2", ".", "3">>)}

NoTestEnv ==
    [TEST_PASSED |-> Undefined, TEST_FAILED |-> Undefined,
     TEST_SKIPPED |-> Undefined, TEST_DURATION |-> Undefined]

TestEnvs ==
    [TEST_PASSED : TestPassedValues, TEST_FAILED : TestFailedValues,
     TEST_SKIPPED : TestSkippedValues, TEST_DURATION : TestDurationValues]

\* a @@ b on records
Merge(a, b) ==
    [k \in DOMAIN a \cup DOMAIN b |-> IF k \in DOMAIN a THEN a[k] ELSE b[k]]

\* the stats object of a Playwright JSON report; Undefined marks an absent field
StatsObjects ==
    [t : {"object"},
     expected : {Undefined, Null, N(0), N(5)},
     unexpected : {Undefined, N(1)},
     skipped : {Undefined, N(2)},
     duration : {Undefined, N(12300)}]

\* what JSON.parse makes of the file's text
JsonValues ==
    {Null, N(7), [t |-> "object", stats |-> Undefined], [t |-> "object", stats |-> Null]}
    \cup {[t |-> "object", stats |-> st] : st \in StatsObjects}

Files ==
    {[kind |-> "missing"], [kind |-> "directory"],
     [kind |-> "file", json |-> Thrown("SyntaxError")]}
    \cup {[kind |-> "file", json |-> v] : v \in JsonValues}

NoOptions == [t |-> "object"]

OptionValues ==
    {NoOptions,
     [t |-> "object", runUrl |-> Text("")],
     [t |-> "object", runUrl |-> Text("https://ci.example/run/7")],
     [t |-> "object", runUrl |-> Text("https://ci.example/run/7"),
      projectName |-> Text("Demo"), branch |-> Text("fix")]}

Summary(p, f, s, d) ==
    [t |-> "object", passed |-> p, failed |-> f, skipped |-> s, duration |-> d]

ResultValues ==
    {Undefined}
    \cup {Summary(N(p), N(f), N(s), d) :
            p \in 0..MaxPassed, f \in 0..MaxFailed, s \in 0..MaxSkipped,
            d \in {N(0), Num(12300)}}

\* an object JSON.stringify cannot serialise (it throws a TypeError)
Circular == [t |-> "object", circular |-> TRUE]

\* how a fetch settles: it rejects, or resolves with a response
FetchOutcomes ==
    {[t |-> "rejected", error |-> "fetch failed"]}
    \cup {[t |-> "response", status |-> st] : st \in {200, 204, 404, 500}}

NoResponse == [t |-> "none"]

\* Response.ok : the status is in the range 200-299
ResponseOk(r) == r.t = "response" /\ r.status \in 200..299

(***************************************************************************)
(* fs.existsSync and parseTestResults                                      *)
(***************************************************************************)
ExistsSync(f) == f.kind # "missing"

\* existsSync, readFileSync and JSON.parse inside try/catch; null otherwise
ParseTestResults(f) ==
    IF ExistsSync(f)
    THEN (IF f.kind = "directory" THEN Null           \* readFileSync throws, caught
          ELSE IF f.json.t = "thrown" THEN Null       \* JSON.parse throws, caught
          ELSE f.json)
    ELSE Null

(***************************************************************************)
(* main: where the TestRunSummary comes from                               *)
(***************************************************************************)
\* args.length > 0 && fs.existsSync(args[0])
MainTakesFile(args, f) == Len(args) > 0 /\ ExistsSync(f)

\* process.env.TEST_PASSED !== undefined
MainTakesEnv(penv) == penv.TEST_PASSED # Undefined

MainSource(args, f, penv) ==
    IF MainTakesFile(args, f) THEN "file"
    ELSE IF MainTakesEnv(penv) THEN "env"
    ELSE "default"

\* mutant: the duration is left in milliseconds
FromStats_DurationInMs(data) ==
    LET stats == OptGet(data, "stats")
    IN Summary(Or(OptGet(stats, "expected"), N(0)),
               Or(OptGet(stats, "unexpected"), N(0)),
               Or(OptGet(stats, "skipped"), N(0)),
               Or(OptGet(stats, "duration"), N(0)))

\* { passed: data.stats?.expected || 0, ..., duration: (data.stats?.duration || 0) / 1000 }
FromStats(data) ==
    LET stats == OptGet(data, "stats")
    IN Summary(Or(OptGet(stats, "expected"), N(0)),
               Or(OptGet(stats, "unexpected"), N(0)),
               Or(OptGet(stats, "skipped"), N(0)),
               JsDiv1000(Or(OptGet(stats, "duration"), N(0))))

\* { passed: parseInt(process.env.TEST_PASSED || '0', 10), ... }
FromEnv(penv) ==
    Summary(ParseInt(Or(penv.TEST_PASSED, Chars(<<"0">>))),
            ParseInt(Or(penv.TEST_FAILED, Chars(<<"0">>))),
            ParseInt(Or(penv.TEST_SKIPPED, Chars(<<"0">>))),
            ParseFloat(Or(penv.TEST_DURATION, Chars(<<"0">>))))

\* { passed: 239, failed: 0, skipped: 0, duration: 24.4 }
DefaultResults == Summary(N(239), N(0), N(0), Num(24400))

\* mutant: the environment variables are looked at before the file
MainResults_EnvFirst(args, f, penv) ==
    IF MainTakesEnv(penv) THEN FromEnv(penv)
    ELSE IF MainTakesFile(args, f)
    THEN (LET data == ParseTestResults(f)
          IN IF Truthy(data) THEN FromStats(data) ELSE Undefined)
    ELSE DefaultResults

\* the value of `results` at line 214; it stays undefined when the file
\* branch is taken and parseTestResults returned a falsy value
MainResults(args, f, penv) ==
    IF MainTakesFile(args, f)
    THEN (LET data == ParseTestResults(f)
          IN IF Truthy(data) THEN FromStats(data) ELSE Undefined)
    ELSE IF MainTakesEnv(penv) THEN FromEnv(penv)
    ELSE DefaultResults

(***************************************************************************)
(* sendSlackNotification: the decisions                                    *)
(***************************************************************************)
\* mutant: only an unset variable counts (=== undefined), not the empty string
WebhookMissing_OnlyUndefined(url) == url = Undefined

\* !SLACK_WEBHOOK_URL
WebhookMissing(url) == Falsy(url)

\* what happens before the POST: "false" (return false), "post" (fetch is
\* called) or "throw"; JSON.stringify(message) is evaluated inside the try
SendEntry(url, m) ==
    IF WebhookMissing(url) THEN "false"
    ELSE IF m = Circular THEN "false"
    ELSE "post"

\* mutant: no catch around the await of fetch
SendAfterPost_NoCatch(outcome) ==
    IF outcome.t = "response"
    THEN (IF ResponseOk(outcome) THEN "true" ELSE "false")
    ELSE "throw"

\* mutant: a delivery that failed is attempted again
SendAfterPost_Retry(outcome) ==
    IF outcome.t = "response" /\ ResponseOk(outcome) THEN "true" ELSE "retry"

\* what happens once the fetch has settled: "true", "false", "throw", or
\* "retry" (another POST)
SendAfterPost(outcome) ==
    IF outcome.t = "response"
    THEN (IF ResponseOk(outcome) THEN "true" ELSE "false")
    ELSE "false"

(***************************************************************************)
(* Initial states                                                          *)
(***************************************************************************)
InitRun ==
    /\ pc = "start"
    /\ source = "none"
    /\ results = Undefined
    /\ options = NoOptions
    /\ message = Undefined
    /\ sent = Undefined
    /\ response = NoResponse
    /\ sendRet = "none"
    /\ createCalls = 0
    /\ sendCalls = 0
    /\ fetchCalls = 0
    /\ posts = 0

\* node utils/slack-notify.js [json-result-file]
Init ==
    /\ caller = "main"
    /\ \E w \in WebhookValues, g \in GithubEnvs, te \in TestEnvs :
          env = Merge([SLACK_WEBHOOK_URL |-> w], Merge(g, te))
    /\ \/ argv = <<>> /\ file = [kind |-> "missing"]
       \/ argv = <<"results.json">> /\ file \in Files
    /\ InitRun
    /\ LaterIdle

\* require('./utils/slack-notify') : the exported functions are called
InitLib ==
    /\ caller = "lib"
    /\ \E w \in WebhookValues, g \in GithubEnvs :
          env = Merge([SLACK_WEBHOOK_URL |-> w], Merge(g, NoTestEnv))
    /\ argv = <<>>
    /\ file = [kind |-> "missing"]
    /\ InitRun
    /\ LaterIdle

\* the notifier is not run
NotifierIdle ==
    /\ caller = "none"
    /\ env = [SLACK_WEBHOOK_URL |-> Undefined]
    /\ argv = <<>>
    /\ file = [kind |-> "missing"]
    /\ InitRun

(***************************************************************************)
(* Actions                                                                 *)
(***************************************************************************)
\* main, lines 180-214
MainObtainResults ==
    /\ caller = "main"
    /\ pc = "start"
    /\ results' = MainResults(argv, file, env)
    /\ source' = MainSource(argv, file, env)
    /\ pc' = "haveResults"
    /\ UNCHANGED <<laterVars, caller, env, argv, file, options, message, sent, response,
                   sendRet, createCalls, sendCalls, fetchCalls, posts>>

\* the call of createSlackMessage; a TypeError ends the caller
Create(r, o) ==
    LET m == CreateSlackMessage(r, o, env)
    IN /\ createCalls' = createCalls + 1
       /\ results' = r
       /\ options' = o
       /\ IF m.t = "thrown"
          THEN pc' = "rejected" /\ message' = Undefined
          ELSE pc' = "haveMessage" /\ message' = m
       /\ UNCHANGED <<laterVars, caller, env, argv, file, source, sent, response, sendRet,
                      sendCalls, fetchCalls, posts>>

\* main, line 216
MainCreateMessage ==
    /\ caller = "main"
    /\ pc = "haveResults"
    /\ Create(results, NoOptions)

\* sendSlackNotification up to the await of fetch, lines 147-160
Send(m) ==
    LET e == SendEntry(SLACK_WEBHOOK_URL, m)
    IN /\ sendCalls' = sendCalls + 1
       /\ sent' = m
       /\ response' = NoResponse
       /\ CASE e = "post" ->
                 /\ fetchCalls' = fetchCalls + 1
                 /\ posts' = 1
                 /\ sendRet' = "none"
                 /\ pc' = "fetching"
            [] e = "false" ->
                 /\ sendRet' = "false"
                 /\ pc' = "sendReturned"
                 /\ posts' = 0
                 /\ UNCHANGED fetchCalls
            [] e = "throw" ->
                 /\ sendRet' = "threw"
                 /\ pc' = "rejected"
                 /\ posts' = 0
                 /\ UNCHANGED fetchCalls
       /\ UNCHANGED <<laterVars, caller, env, argv, file, source, results, options, message,
                      createCalls>>

\* main, line 217
MainSend ==
    /\ caller = "main"
    /\ pc = "haveMessage"
    /\ Send(message)

\* the fetch settles and sendSlackNotification resumes, lines 162-172
FetchSettles ==
    /\ pc = "fetching"
    /\ \E outcome \in FetchOutcomes :
          LET a == SendAfterPost(outcome)
          IN /\ response' = outcome
             /\ CASE a = "true" ->
                       sendRet' = "true" /\ pc' = "sendReturned"
                       /\ UNCHANGED <<fetchCalls, posts>>
                  [] a = "false" ->
                       sendRet' = "false" /\ pc' = "sendReturned"
                       /\ UNCHANGED <<fetchCalls, posts>>
                  [] a = "throw" ->
                       sendRet' = "threw" /\ pc' = "rejected"
                       /\ UNCHANGED <<fetchCalls, posts>>
                  [] a = "retry" ->
                       sendRet' = "none" /\ pc' = "fetching"
                       /\ fetchCalls' = fetchCalls + 1 /\ posts' = posts + 1
    /\ UNCHANGED <<laterVars, caller, env, argv, file, source, results, options, message,
                   sent, createCalls, sendCalls>>

\* main returns after the await, line 218
MainEnd ==
    /\ caller = "main"
    /\ pc = "sendReturned"
    /\ pc' = "done"
    /\ UNCHANGED <<laterVars, caller, env, argv, file, source, results, options, message,
                   sent, response, sendRet, createCalls, sendCalls, fetchCalls, posts>>

\* a caller of the module calls createSlackMessage(results, options)
LibCreate ==
    /\ caller = "lib"
    /\ pc = "start"
    /\ \E r \in ResultValues, o \in OptionValues : Create(r, o)

\* a caller of the module calls sendSlackNotification(message)
LibSend ==
    /\ caller = "lib"
    /\ pc \in {"haveMessage", "sendReturned"}
    /\ sendCalls < MaxSends
    /\ \E m \in {message, Circular} : Send(m)

Next == MainObtainResults \/ MainCreateMessage \/ MainSend \/ FetchSettles \/ MainEnd

NextLib == LibCreate \/ LibSend \/ FetchSettles

Spec == Init /\ [][Next]_vars

SpecLib == InitLib /\ [][NextLib]_vars

(***************************************************************************)
(* Properties of sendSlackNotification                                     *)
(***************************************************************************)
WebhookUnset == env.SLACK_WEBHOOK_URL \in {Undefined, Text("")}

\* C1: with SLACK_WEBHOOK_URL unset or empty, sendSlackNotification returns
\* false and fetch is never called, whatever the message is.
C1_NoWebhookNoFetch ==
    WebhookUnset =>
        /\ fetchCalls = 0
        /\ pc # "fetching"
        /\ sendCalls > 0 => (sendRet = "false" /\ pc \in {"sendReturned", "done"})

C1_Witness ==
    /\ env.SLACK_WEBHOOK_URL = Text("")
    /\ sendCalls = 2
    /\ sent = message
    /\ message.t = "object"
    /\ sendRet = "false"
    /\ fetchCalls = 0

\* C2: sendSlackNotification never throws; it returns false when the POST
\* raises a transport error or the response status is not a success status,
\* and it returns true only when the webhook answered with a success status.
C2_SendNeverThrows ==
    /\ sendRet # "threw"
    /\ pc = "rejected" => sendCalls = 0
    /\ (pc = "sendReturned" /\ response.t = "rejected") => sendRet = "false"
    /\ (pc = "sendReturned" /\ response.t = "response"
          /\ ~(response.status >= 200 /\ response.status <= 299)) => sendRet = "false"
    /\ (pc = "sendReturned" /\ sent = Circular) => sendRet = "false"
    /\ sendRet = "true" =>
          (response.t = "response" /\ response.status >= 200 /\ response.status <= 299)

C2_Witness ==
    /\ pc = "sendReturned"
    /\ response.t = "rejected"
    /\ posts = 1
    /\ sendRet = "false"

\* C3: one call of sendSlackNotification makes at most one POST; a delivery
\* that failed is not attempted again.
C3_AtMostOnePost ==
    /\ posts <= 1
    /\ fetchCalls <= sendCalls
    /\ (pc = "fetching") => (posts = 1 /\ response = NoResponse)

C3_Witness ==
    /\ pc = "sendReturned"
    /\ response.t = "response"
    /\ response.status = 500
    /\ sendRet = "false"
    /\ posts = 1
    /\ sendCalls = 1
    /\ fetchCalls = 1

(***************************************************************************)
(* Properties of main                                                      *)
(***************************************************************************)
MainEnded == caller = "main" /\ pc \in {"done", "rejected"}

\* C4: however main is invoked, it obtains one TestRunSummary, builds one
\* payload from it with createSlackMessage and calls sendSlackNotification
\* exactly once with that payload.
C4_MainSendsExactlyOnce ==
    MainEnded =>
        /\ results.t = "object"
        /\ createCalls = 1
        /\ message.t = "object"
        /\ sendCalls = 1
        /\ sent = message

FileNamed == argv # <<>> /\ file.kind # "missing"

\* C5: the summary comes from the file when argv[0] names an existing file
\* (the TEST_* variables are then not looked at), else from the TEST_*
\* variables when TEST_PASSED is defined (a missing one counting as 0), else
\* it is the default 239 / 0 / 0 / 24.4 s.
C5_SourcePrecedence ==
    (caller = "main" /\ pc # "start") =>
        /\ FileNamed =>
              /\ source = "file"
              /\ results.t = "object" =>
                    /\ file.kind = "file"
                    /\ results = FromStats(file.json)
        /\ (~FileNamed /\ env.TEST_PASSED # Undefined) =>
              /\ source = "env"
              /\ results.t = "object"
              /\ env.TEST_PASSED \in {Chars(<<>>), Chars(<<"0">>)} => results.passed = N(0)
              /\ env.TEST_PASSED = Chars(<<"5">>) => results.passed = N(5)
              /\ env.TEST_PASSED = Chars(<<"1", "2">>) => results.passed = N(12)
              /\ results.failed = (IF env.TEST_FAILED = Undefined THEN N(0) ELSE N(1))
              /\ results.skipped = (IF env.TEST_SKIPPED = Undefined THEN N(0) ELSE N(2))
              /\ results.duration =
                    (IF env.TEST_DURATION = Undefined THEN N(0) ELSE Num(12300))
        /\ (~FileNamed /\ env.TEST_PASSED = Undefined) =>
              /\ source = "default"
              /\ results = Summary(N(239), N(0), N(0), Num(24400))

C5_Witness ==
    /\ caller = "main"
    /\ pc = "haveResults"
    /\ FileNamed
    /\ env.TEST_PASSED = Chars(<<"5">>)
    /\ env.TEST_FAILED = Chars(<<"1">>)
    /\ results.t = "object"
    /\ results.passed = N(0)
    /\ results.failed = N(0)

\* the number a field of the file's stats object holds, 0 when the field, the
\* stats object or the number is not there
StatsNumber(name) ==
    IF file.kind = "file" /\ file.json.t = "object"
       /\ file.json.stats.t = "object" /\ file.json.stats[name].t = "number"
    THEN file.json.stats[name].milli
    ELSE 0

\* C10: a summary read from a JSON result file has passed = stats.expected,
\* failed = stats.unexpected, skipped = stats.skipped and duration =
\* stats.duration / 1000, an absent field (or stats object) counting as 0.
C10_SummaryFromStats ==
    (caller = "main" /\ source = "file" /\ results.t = "object") =>
        /\ results.passed = Num(StatsNumber("expected"))
        /\ results.failed = Num(StatsNumber("unexpected"))
        /\ results.skipped = Num(StatsNumber("skipped"))
        /\ IsNum(results.duration)
        /\ results.duration.milli = StatsNumber("duration") \div 1000

C10_Witness ==
    /\ caller = "main"
    /\ source = "file"
    /\ file.kind = "file"
    /\ file.json.t = "object"
    /\ file.json.stats.t = "object"
    /\ file.json.stats.expected = N(5)
    /\ file.json.stats.unexpected = Undefined
    /\ file.json.stats.duration = N(12300)
    /\ results.t = "object"
    /\ results.passed = N(5)
    /\ results.failed = N(0)
    /\ results.duration = Num(12300)

(***************************************************************************)
(* Properties of createSlackMessage                                        *)
(***************************************************************************)
Created == pc # "start" /\ message.t = "object" /\ results.t = "object"

HeaderBlock == message.blocks[1]
SectionBlock == message.blocks[2]
ContextBlock == message.blocks[3]

FailedCount == IF IsNum(results.failed) THEN results.failed.milli \div 1000 ELSE 0
PassedCount == IF IsNum(results.passed) THEN results.passed.milli \div 1000 ELSE 0
SkippedCount == IF IsNum(results.skipped) THEN results.skipped.milli \div 1000 ELSE 0

ProjectNameGiven ==
    IF "projectName" \in DOMAIN options THEN options.projectName.s ELSE "API Testing Demo"

\* C6: the payload reports a failed run (status text, color, emoji) exactly
\* when failed > 0, and a successful run otherwise, whatever passed, skipped
\* and duration are.
C6_FailureIffFailedPositive ==
    Created =>
        IF FailedCount > 0
        THEN /\ message.color = "#dc3545"
             /\ HeaderBlock.text = ":x: " \o ProjectNameGiven \o " - test results"
             /\ SectionBlock.fields[1] = "*status:* failed :warning:"
        ELSE /\ message.color = "#28a745"
             /\ HeaderBlock.text =
                   ":white_check_mark: " \o ProjectNameGiven \o " - test results"
             /\ SectionBlock.fields[1] = "*status:* passed :tada:"

C6_Witness ==
    /\ Created
    /\ results = Summary(N(5), N(1), N(0), Num(12300))
    /\ message.color = "#dc3545"
    /\ SectionBlock.fields[1] = "*status:* failed :warning:"

Abs(x) == IF x < 0 THEN -x ELSE x

OneDecimal(tenths) == ToString(tenths \div 10) \o "." \o ToString(tenths % 10)

\* C7: the context line shows total = passed + failed + skipped and, when the
\* total is positive, passed / total * 100 rounded to one decimal; 5 passed,
\* 1 failed, 0 skipped gives 83.3%.
C7_TotalAndPassRate ==
    (Created /\ IsNum(results.passed) /\ IsNum(results.failed) /\ IsNum(results.skipped)) =>
        LET total == PassedCount + FailedCount + SkippedCount
        IN /\ total > 0 =>
                \E tenths \in 0..1000 :
                   /\ 2 * Abs(tenths * total - 1000 * PassedCount) <= total
                   /\ ContextBlock.text = "total: " \o ToString(total) \o " | pass rate: "
                                          \o OneDecimal(tenths) \o "%"
           /\ (PassedCount = 5 /\ FailedCount = 1 /\ SkippedCount = 0) =>
                ContextBlock.text = "total: 6 | pass rate: 83.3%"

C7_Witness ==
    /\ Created
    /\ results = Summary(N(5), N(1), N(2), Num(12300))
    /\ ContextBlock.text = "total: 8 | pass rate: 62.5%"

\* C8: with passed, failed and skipped all 0 nothing is divided by zero and
\* the pass rate is shown as 0%.
C8_ZeroTotalZeroPercent ==
    (Created /\ results.passed = N(0) /\ results.failed = N(0) /\ results.skipped = N(0)) =>
        ContextBlock.text = "total: 0 | pass rate: 0%"

C8_Witness ==
    /\ Created
    /\ results = Summary(N(0), N(0), N(0), N(0))
    /\ ContextBlock.text = "total: 0 | pass rate: 0%"

RunUrlGiven == "runUrl" \in DOMAIN options /\ options.runUrl # Text("")

\* C9: given options.runUrl the payload has an actions block whose button url
\* is options.runUrl; with no options.runUrl and no GITHUB_SERVER_URL the
\* payload has no actions block.
C9_ButtonLinksToRunUrl ==
    Created =>
        /\ RunUrlGiven =>
              /\ Len(message.blocks) = 4
              /\ message.blocks[4].type = "actions"
              /\ message.blocks[4].elements[1].url = options.runUrl
        /\ (~RunUrlGiven /\ env.GITHUB_SERVER_URL = Undefined) =>
              /\ Len(message.blocks) = 3
              /\ \A i \in 1..3 : message.blocks[i].type # "actions"

(***************************************************************************)
(* validateSchema(data, schema), the helper of the schema tests            *)
(*                                                                         *)
(* An object is a record with the field t = "object" and one field per     *)
(* property; an array is Array(items).  A schema is the sequence of its    *)
(* entries in the order Object.entries yields them, each                   *)
(* [key, type], the type being Text(name) or Nested(entries).              *)
(***************************************************************************)
Array(items) == [t |-> "array", items |-> items]

EmptyObject == [t |-> "object"]

\* marks a property that the object does not have
Absent == [t |-> "absent"]

\* the object with the properties given as <<key, value>> pairs
RECURSIVE ObjectOf(_)
ObjectOf(pairs) ==
    IF pairs = <<>> THEN EmptyObject
    ELSE LET rest == ObjectOf(Tail(pairs))
             k == Head(pairs)[1]
             v == Head(pairs)[2]
         IN IF v = Absent THEN rest ELSE (k :> v) @@ rest

\* typeof v
TypeOf(v) ==
    CASE v.t = "undefined" -> "undefined"
      [] v.t \in {"null", "object", "array"} -> "object"
      [] v.t \in {"number", "NaN"} -> "number"
      [] v.t = "string" -> "string"
      [] v.t = "boolean" -> "boolean"

\* Array.isArray(v)
IsArray(v) == v.t = "array"

\* reading data[key] throws a TypeError when data is null or undefined
CanRead(data) == data.t \notin {"null", "undefined"}

\* the property key of data is there
HasProperty(data, key) == data.t = "object" /\ key \in DOMAIN data

\* data[key]
GetProperty(data, key) == IF HasProperty(data, key) THEN data[key] ELSE Undefined

\* a nested schema object
Nested(entries) == [t |-> "schema", entries |-> entries]

\* typeof expectedType === 'object' && !Array.isArray(expectedType)
IsNestedSchema(type) == type.t = "schema"

Entry(key, type) == [key |-> key, type |-> type]

\* mutant: a nested value is only checked to be an object
CheckNested_Shallow(value, nested, below) == "pass"

\* validateSchema(data[key], expectedType) for a nested schema
CheckNested(value, nested, below) == below

\* mutant: the array test is typeof data[key] === 'object'
ArrayTest_TypeofObject(value) == TypeOf(value) = "object"

\* Array.isArray(data[key])
ArrayTest(value) == IsArray(value)

\* how validateSchema ends: "pass", "assertion" (an expect fails) or
\* "TypeError" (a property of null or undefined is read)
RECURSIVE ValidateSchema(_, _)
ValidateSchema(data, schema) ==
    IF schema = <<>> THEN "pass"
    ELSE
    LET key == Head(schema).key
        type == Head(schema).type
        one ==
          IF IsNestedSchema(type)
          THEN (IF ~HasProperty(data, key) THEN "assertion"
                ELSE IF TypeOf(data[key]) # "object" THEN "assertion"
                ELSE CheckNested(data[key], type, ValidateSchema(data[key], type.entries)))
          ELSE IF type = Text("array")
          THEN (IF ~CanRead(data) THEN "TypeError"
                ELSE IF ArrayTest(GetProperty(data, key)) THEN "pass"
                ELSE "assertion")
          ELSE (IF ~HasProperty(data, key) THEN "assertion"
                ELSE IF TypeOf(data[key]) # type.s THEN "assertion"
                ELSE "pass")
    IN IF one = "pass" THEN ValidateSchema(data, Tail(schema)) ELSE one

(***************************************************************************)
(* Inputs of validateSchema                                                *)
(***************************************************************************)
GeoValues ==
    {Absent, Null} \cup {ObjectOf(<< <<"lat", v>> >>) : v \in {Text("1.5"), N(1)}}

AddressValues ==
    {Absent, Null, Array(<<>>), N(3)}
    \cup {ObjectOf(<< <<"city", c>>, <<"tags", g>>, <<"geo", o>> >>) :
            c \in {Absent, Text("Oslo"), N(7)},
            g \in {Absent, Array(<<>>), EmptyObject},
            o \in GeoValues}

DataValues ==
    {Null, Undefined}
    \cup {ObjectOf(<< <<"id", i>>, <<"name", n>>, <<"tags", g>>, <<"address", a>>,
                      <<"extra", x>> >>) :
            i \in {Absent, N(1), Text("1")},
            n \in {Absent, Text("a")},
            g \in {Absent, Array(<<>>), Array(<<N(1)>>), Array(<<Text("a"), Null>>),
                   EmptyObject},
            a \in AddressValues,
            x \in {Absent, N(9)}}

SchemaValues ==
    { <<>>,
      <<Entry("id", Text("number")), Entry("name", Text("string"))>>,
      <<Entry("tags", Text("array"))>>,
      <<Entry("id", Text("number")), Entry("tags", Text("array"))>>,
      <<Entry("address", Nested(<<Entry("city", Text("string"))>>))>>,
      <<Entry("address", Nested(<<Entry("tags", Text("array"))>>))>>,
      <<Entry("id", Text("number")),
        Entry("address",
              Nested(<<Entry("city", Text("string")),
                       Entry("geo", Nested(<<Entry("lat", Text("string"))>>))>>))>> }

(***************************************************************************)
(* A call of validateSchema                                                *)
(***************************************************************************)
InitSchema ==
    /\ vsData \in DataValues
    /\ vsSchema \in SchemaValues
    /\ vsOutcome = "none"
    /\ NotifierIdle
    /\ ScenariosIdle
    /\ EpIdle
    /\ RunIdle
    /\ LoadIdle

Validate ==
    /\ vsOutcome = "none"
    /\ vsOutcome' = ValidateSchema(vsData, vsSchema)
    /\ UNCHANGED <<vsData, vsSchema, notifierVars, scenarioVars, epVars, runVars, loadVars>>

NextSchema == Validate

SpecSchema == InitSchema /\ [][NextSchema]_vars

(***************************************************************************)
(* Properties of validateSchema                                            *)
(***************************************************************************)
Validated == vsOutcome \in {"pass", "assertion", "TypeError"}

\* every field the schema declares is in data with the declared type: typeof
\* for a primitive type name, an array for "array", and for a nested schema
\* an object that matches the nested schema in turn
RECURSIVE Conforms(_, _)
Conforms(data, schema) ==
    \A i \in 1..Len(schema) :
       LET key == schema[i].key
           type == schema[i].type
       IN IF type.t = "schema"
          THEN /\ HasProperty(data, key)
               /\ data[key].t \in {"object", "array", "null"}
               /\ Conforms(data[key], type.entries)
          ELSE IF type.s = "array"
          THEN HasProperty(data, key) /\ data[key].t = "array"
          ELSE HasProperty(data, key) /\ TypeOf(data[key]) = type.s

\* C11: validateSchema completes when every declared field is in data with
\* the declared type and raises an assertion failure when a declared field is
\* absent or of another type; nested schemas are checked against the nested
\* value, and undeclared fields of data play no part.
C11_AcceptsIffConforms ==
    Validated =>
        IF Conforms(vsData, vsSchema)
        THEN vsOutcome = "pass"
        ELSE vsOutcome = "assertion"

ArrayOnlySchema == <<Entry("tags", Text("array"))>>

NestedArraySchema == <<Entry("address", Nested(<<Entry("tags", Text("array"))>>))>>

\* C12: a field declared "array" passes exactly when its value in data is an
\* array, whatever the elements are; a missing field and a non-array value
\* (a plain object too) are rejected.
C12_ArrayFieldIffArray ==
    Validated =>
        /\ \A i \in 1..Len(vsSchema) :
              (vsSchema[i].type = Text("array") /\ vsOutcome = "pass") =>
                 (HasProperty(vsData, vsSchema[i].key)
                    /\ vsData[vsSchema[i].key].t = "array")
        /\ vsSchema = ArrayOnlySchema =>
              (vsOutcome = "pass") =
                 (HasProperty(vsData, "tags") /\ vsData.tags.t = "array")
        /\ vsSchema = NestedArraySchema =>
              (vsOutcome = "pass") =
                 (/\ HasProperty(vsData, "address")
                  /\ HasProperty(vsData.address, "tags")
                  /\ vsData.address.tags.t = "array")

C12_Witness ==
    /\ vsSchema = ArrayOnlySchema
    /\ HasProperty(vsData, "tags")
    /\ vsData.tags = Array(<<Text("a"), Null>>)
    /\ ~HasProperty(vsData, "id")
    /\ vsOutcome = "pass"

(***************************************************************************)
(* The endpoint registry (api/endpoints.js) and the URLs the tests build   *)
(* from it.  Paths are sequences of characters.                            *)
(***************************************************************************)
Path(chars) == [t |-> "path", chars |-> chars]

Fn(prefix, suffix) == [t |-> "fn", prefix |-> prefix, suffix |-> suffix]

DigitChar(d) == CHOOSE c \in Digits : DigitVal(c) = d

\* String(n) of an integer
RECURSIVE ToDecimal(_)
ToDecimal(n) ==
    IF n < 0 THEN <<"-">> \o ToDecimal(0 - n)
    ELSE IF n < 10 THEN <<DigitChar(n)>>
    ELSE ToDecimal(n \div 10) \o <<DigitChar(n % 10)>>

\* what a template literal makes of ${id}
Stringify(id) ==
    CASE id.t = "number" -> ToDecimal(id.milli \div 1000)
      [] id.t = "string" -> id.chars
      [] id.t = "undefined" -> <<"u", "n", "d", "e", "f", "i", "n", "e", "d">>
      [] id.t = "null" -> <<"n", "u", "l", "l">>

Interpolate_Twice(prefix, id, suffix) == prefix \o Stringify(id) \o suffix \o Stringify(id)

\* `prefix${id}suffix`
Interpolate(prefix, id, suffix) == prefix \o Stringify(id) \o suffix

\* const API = { jsonplaceholder: {...}, reqres: {...}, petstore: {...} }
API ==
    [jsonplaceholder |->
        [baseURL |-> "https://jsonplaceholder.typicode.com",
         endpoints |->
            [posts |-> Path(<<"/", "p", "o", "s", "t", "s">>),
             post |-> Fn(<<"/", "p", "o", "s", "t", "s", "/">>, <<>>),
             users |-> Path(<<"/", "u", "s", "e", "r", "s">>),
             user |-> Fn(<<"/", "u", "s", "e", "r", "s", "/">>, <<>>),
             comments |-> Path(<<"/", "c", "o", "m", "m", "e", "n", "t", "s">>),
             postComments |->
                Fn(<<"/", "p", "o", "s", "t", "s", "/">>, <<"/", "c", "o", "m", "m", "e", "n", "t", "s">>)]],
     reqres |->
        [baseURL |-> "https://reqres.in/api",
         endpoints |->
            [users |-> Path(<<"/", "u", "s", "e", "r", "s">>),
             user |-> Fn(<<"/", "u", "s", "e", "r", "s", "/">>, <<>>),
             register |-> Path(<<"/", "r", "e", "g", "i", "s", "t", "e", "r">>),
             login |-> Path(<<"/", "l", "o", "g", "i", "n">>)]],
     petstore |->
        [baseURL |-> "https://petstore.swagger.io/v2",
         endpoints |->
            [pet |-> Path(<<"/", "p", "e", "t">>),
             petById |-> Fn(<<"/", "p", "e", "t", "/">>, <<>>),
             petByStatus |->
                Path(<<"/", "p", "e", "t", "/", "f", "i", "n", "d", "B", "y", "S", "t", "a", "t", "u", "s">>),
             store |->
                Path(<<"/", "s", "t", "o", "r", "e", "/", "i", "n", "v", "e", "n", "t", "o", "r", "y">>),
             order |->
                Path(<<"/", "s", "t", "o", "r", "e", "/", "o", "r", "d", "e", "r">>),
             orderById |->
                Fn(<<"/", "s", "t", "o", "r", "e", "/", "o", "r", "d", "e", "r", "/">>, <<>>),
             user |-> Path(<<"/", "u", "s", "e", "r">>),
             userByUsername |-> Fn(<<"/", "u", "s", "e", "r", "/">>, <<>>),
             userLogin |-> Path(<<"/", "u", "s", "e", "r", "/", "l", "o", "g", "i", "n">>)]]]

\* endpoints.name: undefined when the entry has no such property
Lookup(svc, name) ==
    IF name \in DOMAIN API[svc].endpoints THEN API[svc].endpoints[name] ELSE Undefined

Read(svc, name, call, by) == [svc |-> svc, name |-> name, call |-> call, by |-> by]

\* every path function of the registry, called on its own
FunctionCalls ==
    UNION { { Read(svc, name, TRUE, "registry") :
                name \in { n \in DOMAIN API[svc].endpoints :
                             API[svc].endpoints[n].t = "fn" } } :
            svc \in DOMAIN API }

\* the reads `${baseURL}${endpoints.name}` and `${baseURL}${endpoints.name(id)}`
\* that the test files make, by the service whose entry is destructured
TestReads ==
    { Read("jsonplaceholder", n, FALSE, "test") : n \in {"posts", "users", "comments"} }
    \cup { Read("jsonplaceholder", n, TRUE, "test") : n \in {"post", "user", "postComments"} }
    \cup { Read("reqres", n, FALSE, "test") : n \in {"users", "register", "login"} }
    \cup { Read("reqres", "user", TRUE, "test") }
    \cup { Read("petstore", n, FALSE, "test") :
             n \in {"pet", "petByStatus", "store", "order", "storeInventory", "storeOrder"} }
    \cup { Read("petstore", n, TRUE, "test") : n \in {"petById", "orderById", "storeOrderById"} }

Identifiers ==
    { N(n) : n \in {0 - 1, 0, 1, 2, 11, 99999} }
    \cup { Chars(<<"u", "s", "e", "r">>), Chars(<<"s">>), Chars(<<"j", "o", "h", "n">>), Chars(<<"1", "1">>) }
    \cup { Undefined }

UrlOf(svc, chars) == [t |-> "url", base |-> API[svc].baseURL, path |-> chars]

\* `${baseURL}${endpoints.name}` or `${baseURL}${endpoints.name(id)}`
BuildUrl(use, id) ==
    LET e == Lookup(use.svc, use.name)
    IN IF use.call
       THEN (IF e.t = "fn"
             THEN UrlOf(use.svc, Interpolate(e.prefix, id, e.suffix))
             ELSE [t |-> "TypeError"])
       ELSE (IF e.t = "path" THEN UrlOf(use.svc, e.chars)
             ELSE IF e.t = "undefined" THEN UrlOf(use.svc, Stringify(Undefined))
             ELSE UrlOf(use.svc, <<"(", "i", "d", ")", "=", ">">>))

InitEndpoints ==
    /\ epUse \in FunctionCalls \cup TestReads
    /\ epArg \in Identifiers
    /\ epOut = [t |-> "none"]
    /\ NotifierIdle
    /\ ScenariosIdle
    /\ SchemaIdle
    /\ RunIdle
    /\ LoadIdle

\* endpoints.fn(id), the registry's function called directly
CallPathFunction ==
    /\ epOut = [t |-> "none"]
    /\ epUse.by = "registry"
    /\ LET e == Lookup(epUse.svc, epUse.name)
       IN epOut' = Path(Interpolate(e.prefix, epArg, e.suffix))
    /\ UNCHANGED <<epUse, epArg, notifierVars, scenarioVars, schemaVars, runVars, loadVars>>

\* a test case builds its request URL
TestBuildsUrl ==
    /\ epOut = [t |-> "none"]
    /\ epUse.by = "test"
    /\ epOut' = BuildUrl(epUse, epArg)
    /\ UNCHANGED <<epUse, epArg, notifierVars, scenarioVars, schemaVars, runVars, loadVars>>

NextEndpoints == CallPathFunction \/ TestBuildsUrl

SpecEndpoints == InitEndpoints /\ [][NextEndpoints]_vars

(***************************************************************************)
(* Properties of the endpoint registry                                     *)
(***************************************************************************)
\* the number of places of s at which sub begins
Occurrences(sub, s) ==
    Cardinality({ i \in 1..(Len(s) - Len(sub) + 1) : SubSeq(s, i, i + Len(sub) - 1) = sub })

PathProduced == epUse.by = "registry" /\ epOut.t = "path"

\* C13 as stated: for every path function and every identifier the path
\* holds the stringified identifier exactly once, at the placeholder, and the
\* rest is the fixed template text, which begins with "/".
C13_IdentifierExactlyOnce ==
    PathProduced =>
        LET e == Lookup(epUse.svc, epUse.name)
            id == Stringify(epArg)
        IN /\ epOut.chars = e.prefix \o id \o e.suffix
           /\ Head(e.prefix) = "/"
           /\ Occurrences(id, epOut.chars) = 1

\* C13 amended: the path is the fixed template text, beginning with "/", with
\* the stringified identifier at the placeholder; an identifier that is a
\* number occurs in the path exactly once, any identifier at least once.
C13_IdentifierAtPlaceholder ==
    PathProduced =>
        LET e == Lookup(epUse.svc, epUse.name)
            id == Stringify(epArg)
        IN /\ epOut.chars = e.prefix \o id \o e.suffix
           /\ Head(e.prefix) = "/"
           /\ Occurrences(id, epOut.chars) >= 1
           /\ epArg.t = "number" => Occurrences(id, epOut.chars) = 1

C13_Witness ==
    /\ PathProduced
    /\ epUse.name = "postComments"
    /\ epArg = N(11)
    /\ epOut.chars = <<"/", "p", "o", "s", "t", "s", "/", "1", "1",
                       "/", "c", "o", "m", "m", "e", "n", "t", "s">>

\* C14: every endpoint name a test case reads from a service's entry is a
\* name the entry defines, so the URL is the baseURL followed by a defined
\* path and no lookup yields undefined.
C14_TestsReadDefinedNames ==
    (epUse.by = "test" /\ epOut.t # "none") =>
        /\ epUse.name \in DOMAIN API[epUse.svc].endpoints
        /\ epOut.t = "url"
        /\ epOut.base = API[epUse.svc].baseURL
        /\ LET e == Lookup(epUse.svc, epUse.name)
           IN epOut.path = IF epUse.call
                           THEN e.prefix \o Stringify(epArg) \o e.suffix
                           ELSE e.chars

(***************************************************************************)
(* A Playwright run of a describe block whose cases share one generated id *)
(* (tests/petstore/pet.spec.js, store.spec.js) under playwright.config.js. *)
(* The third-party server is the environment: it keeps the ids it was      *)
(* given, and any request may fail with a 500.                             *)
(***************************************************************************)
CIValues == {Undefined, Text(""), Text("true"), Text("false"), Text("1")}

CIMode_OnlyTrue(ci) == ci = Text("true")

\* process.env.CI ? ... : ...
CIMode(ci) == Truthy(ci)

Retries_AlwaysTwo(ci) == 2

\* retries: process.env.CI ? 2 : 0
Retries(ci) == IF CIMode(ci) THEN 2 ELSE 0

\* workers: process.env.CI ? 1 : undefined
Workers(ci) == IF CIMode(ci) THEN N(1) ELSE Undefined

Case(name, method, shared, expect) ==
    [name |-> name, method |-> method, shared |-> shared, expect |-> expect]

\* the test cases of the describe block, in declaration order
Cases(suite) ==
    IF suite = "pet"
    THEN <<Case("create", "POST", TRUE, 200), Case("read", "GET", TRUE, 200),
           Case("update", "PUT", TRUE, 200), Case("delete", "DELETE", TRUE, 200),
           Case("absent", "GET", TRUE, 404)>>
    ELSE <<Case("create", "POST", TRUE, 200), Case("read", "GET", TRUE, 200),
           Case("delete", "DELETE", TRUE, 200), Case("invalid", "GET", FALSE, 404)>>

\* generatePetId() / Math.floor(Math.random() * 10) + 1
GeneratedIds == {1, 2}

invalidOrderId == 99999

\* the server's answer to a request and the ids it holds afterwards
Respond(method, id, store, fault) ==
    IF fault THEN [status |-> 500, store |-> store]
    ELSE CASE method \in {"POST", "PUT"} -> [status |-> 200, store |-> store \cup {id}]
           [] method = "GET" ->
                [status |-> IF id \in store THEN 200 ELSE 404, store |-> store]
           [] method = "DELETE" ->
                [status |-> IF id \in store THEN 200 ELSE 404, store |-> store \ {id}]

\* expect(response.status()).toBe(expected)
Expectation(case, status) == IF status = case.expect THEN "passed" ELSE "failed"

AfterFailure_Stop(n, last) == [pc |-> "done", next |-> n]

\* after a failed case the worker is discarded: the next case runs in a new
\* worker, which runs beforeAll again; the run ends after the last case
AfterFailure(n, last) ==
    [pc |-> IF n = last THEN "done" ELSE "beforeAll", next |-> n + 1]

InitRunner ==
    /\ rCI \in CIValues
    /\ rSuite \in {"pet", "order"}
    /\ rPc = "start"
    /\ rConfig = [t |-> "unloaded"]
    /\ rId = 0
    /\ rStore0 \in {{}, {1}}
    /\ rStore = rStore0
    /\ rNext = 1
    /\ rAttempt = 0
    /\ rRuns = [i \in 1..Len(Cases(rSuite)) |-> 0]
    /\ rUsed = [i \in 1..Len(Cases(rSuite)) |-> 0]
    /\ rStatus = [i \in 1..Len(Cases(rSuite)) |-> 0]
    /\ rVerdict = [i \in 1..Len(Cases(rSuite)) |-> "none"]
    /\ NotifierIdle
    /\ ScenariosIdle
    /\ SchemaIdle
    /\ EpIdle
    /\ LoadIdle

\* module.exports = defineConfig({ retries: ..., workers: ... })
LoadConfig ==
    /\ rPc = "start"
    /\ rConfig' = [retries |-> Retries(rCI), workers |-> Workers(rCI)]
    /\ rPc' = "beforeAll"
    /\ UNCHANGED <<rCI, rSuite, rId, rStore0, rStore, rNext, rAttempt, rRuns, rUsed,
                   rStatus, rVerdict, notifierVars, scenarioVars, schemaVars, epVars, loadVars>>

\* test.beforeAll(() => { testPetId = generatePetId(); }) in a new worker
BeforeAll ==
    /\ rPc = "beforeAll"
    /\ rId' \in GeneratedIds
    /\ rPc' = "test"
    /\ UNCHANGED <<rCI, rSuite, rConfig, rStore0, rStore, rNext, rAttempt, rRuns, rUsed,
                   rStatus, rVerdict, notifierVars, scenarioVars, schemaVars, epVars, loadVars>>

\* one execution of the case rNext: its request, the response, its expectation
RunTest ==
    /\ rPc = "test"
    /\ \E fault \in BOOLEAN :
         LET case == Cases(rSuite)[rNext]
             id == IF case.shared THEN rId ELSE invalidOrderId
             r == Respond(case.method, id, rStore, fault)
             outcome == Expectation(case, r.status)
             last == Len(Cases(rSuite))
         IN /\ rStore' = r.store
            /\ rRuns' = [rRuns EXCEPT ![rNext] = @ + 1]
            /\ rUsed' = [rUsed EXCEPT ![rNext] = id]
            /\ rStatus' = [rStatus EXCEPT ![rNext] = r.status]
            /\ IF outcome = "passed"
               THEN /\ rVerdict' = [rVerdict EXCEPT ![rNext] = "passed"]
                    /\ rNext' = rNext + 1
                    /\ rAttempt' = 0
                    /\ rPc' = IF rNext = last THEN "done" ELSE "test"
               ELSE IF rAttempt < rConfig.retries
               THEN /\ rAttempt' = rAttempt + 1
                    /\ rPc' = "beforeAll"
                    /\ UNCHANGED <<rVerdict, rNext>>
               ELSE /\ rVerdict' = [rVerdict EXCEPT ![rNext] = "failed"]
                    /\ rNext' = AfterFailure(rNext, last).next
                    /\ rAttempt' = 0
                    /\ rPc' = AfterFailure(rNext, last).pc
    /\ UNCHANGED <<rCI, rSuite, rConfig, rId, rStore0, notifierVars, scenarioVars, schemaVars, epVars, loadVars>>

NextRunner == LoadConfig \/ BeforeAll \/ RunTest

SpecRunner == InitRunner /\ [][NextRunner]_vars

(***************************************************************************)
(* Properties of the test run                                              *)
(***************************************************************************)
CaseIndexes == 1..Len(rVerdict)

Completed(i) == rVerdict[i] # "none"

\* the verdict of case i had it been the only case to run: its last request,
\* with the same fault or none, answered by the server as the run found it
Alone(i) ==
    LET case == Cases(rSuite)[i]
    IN Expectation(case, Respond(case.method, rUsed[i], rStore0, rStatus[i] = 500).status)

C16_NeverExecutedAgain ==
    \A i \in CaseIndexes : rRuns[i] <= 1

\* C16 amended: with CI unset or empty a case runs at most once, failed or
\* not; with CI set a case is executed again only after it failed, at most 2
\* more times, and a case executed more than once means CI is set.
C16_ReExecutedOnlyUnderCI ==
    \A i \in CaseIndexes :
       /\ Falsy(rCI) => rRuns[i] <= 1
       /\ rRuns[i] <= 3
       /\ (rRuns[i] >= 2 /\ Completed(i)) =>
             (rVerdict[i] = "failed") = (rRuns[i] = 3 /\ rStatus[i] # Cases(rSuite)[i].expect)

C16_Witness ==
    /\ rCI = Text("true")
    /\ rPc = "done"
    /\ rRuns[1] = 3
    /\ rVerdict[1] = "failed"
    /\ rRuns[2] = 2
    /\ rVerdict[2] = "passed"

ConfigLoaded == rPc \in {"beforeAll", "test", "done"}

CIModeOn == rConfig.retries = 2 /\ rConfig.workers = N(1)

CIModeOff == rConfig.retries = 0 /\ rConfig.workers = Undefined

\* C17 as stated: CI mode (2 retries, one worker) is in effect exactly when
\* CI is set to true; unset or any other value gives retries 0 and the
\* runner's default worker count.
C17_CIModeIffTrue ==
    ConfigLoaded => IF rCI = Text("true") THEN CIModeOn ELSE CIModeOff

\* C17 amended: CI mode is in effect exactly when CI is set to a non-empty
\* value: true, and equally 1 or false; unset or empty gives retries 0 and
\* the runner's default worker count.
C17_CIModeIffNonEmpty ==
    ConfigLoaded =>
        /\ rCI \in {Text("true"), Text("false"), Text("1")} => CIModeOn
        /\ rCI \in {Undefined, Text("")} => CIModeOff

C17_Witness ==
    /\ rPc = "done"
    /\ rCI = Text("false")
    /\ CIModeOn
    /\ \E i \in CaseIndexes : rRuns[i] = 3

(***************************************************************************)
(* The k6 scripts (k6/load-test.js, k6/stress-test.js, k6/spike-test.js):  *)
(* setup, the stages of options.stages, iterations of the default          *)
(* function, teardown.                                                     *)
(***************************************************************************)
Scripts == {"load", "stress", "spike"}

Stage(n, unit, target) == [n |-> n, unit |-> unit, target |-> target]

\* options.stages
Stages(script) ==
    CASE script = "load" ->
           <<Stage(30, "s", 10), Stage(1, "m", 10), Stage(30, "s", 50), Stage(2, "m", 50),
             Stage(30, "s", 0)>>
      [] script = "stress" ->
           <<Stage(1, "m", 50), Stage(2, "m", 50), Stage(1, "m", 100), Stage(2, "m", 100),
             Stage(1, "m", 200), Stage(2, "m", 200), Stage(1, "m", 300), Stage(2, "m", 300),
             Stage(2, "m", 0)>>
      [] script = "spike" ->
           <<Stage(30, "s", 10), Stage(10, "s", 200), Stage(30, "s", 200), Stage(10, "s", 10),
             Stage(30, "s", 10), Stage(10, "s", 500), Stage(30, "s", 500), Stage(10, "s", 10),
             Stage(1, "m", 10), Stage(10, "s", 0)>>

\* the seconds of a duration such as '30s' or '1m'
Seconds(stage) == IF stage.unit = "m" THEN stage.n * 60 ELSE stage.n

Clock(m, s) == [m |-> m, s |-> s]

Interval(from, to) == [from |-> from, to |-> to]

\* the lines '[0:00-0:30] ...' that setup logs
LoggedTimeline(script) ==
    IF script = "spike"
    THEN <<Interval(Clock(0, 0), Clock(0, 30)), Interval(Clock(0, 30), Clock(0, 40)),
           Interval(Clock(0, 40), Clock(1, 10)), Interval(Clock(1, 10), Clock(1, 20)),
           Interval(Clock(1, 20), Clock(1, 50)), Interval(Clock(1, 50), Clock(2, 0)),
           Interval(Clock(2, 0), Clock(2, 30)), Interval(Clock(2, 30), Clock(2, 40)),
           Interval(Clock(2, 40), Clock(3, 40))>>
    ELSE <<>>

\* the http.get calls of setup
SetupGets(script) == IF script = "stress" THEN 0 ELSE 1

\* if (res.status !== 200) throw new Error(...)
SetupThrows(script, status) == SetupGets(script) = 1 /\ status # 200

Response(status, ms, body) == [status |-> status, ms |-> ms, body |-> body]

\* what the target may answer: the expected JSON, a JSON error object, a slow
\* answer, an answer whose body is not JSON
Responses ==
    {Response(200, 100, "expected"), Response(201, 100, "expected"),
     Response(500, 100, "json"), Response(200, 1500, "expected"),
     Response(503, 100, "html")}

Pred(k, v) == [k |-> k, v |-> v]

\* one predicate of a check: "true", "false", or "throw" when JSON.parse fails
EvalPred(p, r) ==
    CASE p.k = "status" -> IF r.status = p.v THEN "true" ELSE "false"
      [] p.k = "faster" -> IF r.ms < p.v THEN "true" ELSE "false"
      [] p.k = "body" ->
           IF r.body = "html" THEN "throw"
           ELSE IF r.body = "expected" THEN "true" ELSE "false"

\* check(res, {...}): every predicate is evaluated, an exception of a
\* predicate leaves check
Check(r, preds) ==
    IF \E i \in 1..Len(preds) : EvalPred(preds[i], r) = "throw" THEN "throw"
    ELSE IF \A i \in 1..Len(preds) : EvalPred(preds[i], r) = "true" THEN "true"
    ELSE "false"

\* the checks of the requests the default function may make: for load all
\* five in turn, each followed by a sleep; for stress and spike the one that
\* Math.random() selects
Checks(script) ==
    CASE script = "load" ->
           <<<<Pred("status", 200), Pred("faster", 500), Pred("body", 0)>>,
             <<Pred("status", 200), Pred("faster", 500), Pred("body", 0)>>,
             <<Pred("status", 200), Pred("body", 0)>>,
             <<Pred("status", 201), Pred("body", 0)>>,
             <<Pred("status", 200), Pred("body", 0)>>>>
      [] script = "stress" ->
           <<<<Pred("status", 200), Pred("faster", 1000)>>,
             <<Pred("status", 201), Pred("faster", 1000)>>,
             <<Pred("status", 200), Pred("faster", 1000)>>>>
      [] script = "spike" ->
           <<<<Pred("status", 200)>>, <<Pred("status", 200)>>, <<Pred("status", 200)>>,
             <<Pred("status", 200)>>, <<Pred("status", 201)>>>>

\* the requests of one iteration, as indexes into Checks(script)
Requests(script, choice) ==
    IF script = "load" THEN <<1, 2, 3, 4, 5>> ELSE <<choice>>

\* Math.random(), in tenths: 0 is [0, 0.1), 9 is [0.9, 1)
RandomDraws == 0..9

\* stress-test.js: if (Math.random() < 0.6) GET, else if (Math.random() < 0.9)
\* POST, else PUT; the result is the index of the branch in Checks("stress")
StressBranch(first, second) ==
    IF first < 6 THEN 1 ELSE IF second < 9 THEN 2 ELSE 3

\* the method of the request of each branch of stress-test.js
StressMethods == <<"GET", "POST", "PUT">>

\* the methods of the requests of the default function
Methods(script) ==
    CASE script = "load" -> <<"GET", "GET", "GET", "POST", "GET">>
      [] script = "stress" -> StressMethods
      [] script = "spike" -> <<"GET", "GET", "GET", "GET", "POST">>

\* the request Math.random() selects: a branch of stress-test.js,
\* actions[Math.floor(Math.random() * actions.length)] of spike-test.js
Selected(script, first, second) ==
    CASE script = "stress" -> StressBranch(first, second)
      [] script = "spike" -> (first * Len(Checks(script))) \div 10 + 1
      [] script = "load" -> 1

\* the values of the k-th call of Math.random() that selects the request:
\* stress-test.js makes two such calls, spike-test.js one, load-test.js none
Draws(script, k) ==
    IF script = "stress" \/ (script = "spike" /\ k = 1) THEN RandomDraws ELSE {0}

ErrorSamples_Negated(c) == IF c = "false" THEN <<1>> ELSE <<0>>

\* check(...) || errorRate.add(1), if (!success) errorRate.add(1): the samples
\* that 'errors' receives after a check
ErrorSamples(c) == IF c = "false" THEN <<1>> ELSE <<>>

Records_OnlyGet(script, choice) == script = "stress" /\ choice = 1

\* requestDuration.add(res.timings.duration); requestCount.add(1): in every
\* branch of stress-test.js, in no other script
Records(script, choice) == script = "stress"

NoMetrics ==
    [errors |-> <<>>, requestDuration |-> <<>>, requestCount |-> 0, requests |-> 0,
     falseChecks |-> 0, method |-> "none"]

InitLoad ==
    /\ kScript \in Scripts
    /\ kPc = "init"
    /\ kLiveness \in {200, 500}
    /\ kSetupGets = 0
    /\ kTimeline = <<>>
    /\ kStage = 0
    /\ kElapsed = 0
    /\ kIterations = 0
    /\ kErrors = 0
    /\ kReq = 0
    /\ kIter = "none"
    /\ kFailing = 0
    /\ kAdded = 0
    /\ kMetrics = NoMetrics
    /\ NotifierIdle
    /\ ScenariosIdle
    /\ SchemaIdle
    /\ EpIdle
    /\ RunIdle

\* export function setup()
Setup ==
    /\ kPc = "init"
    /\ kTimeline' = LoggedTimeline(kScript)
    /\ kSetupGets' = SetupGets(kScript)
    /\ IF SetupThrows(kScript, kLiveness)
       THEN kPc' = "aborted" /\ kStage' = kStage
       ELSE kPc' = "running" /\ kStage' = 1
    /\ UNCHANGED <<kScript, kLiveness, kElapsed, kIterations, kErrors, kReq, kIter,
                   kFailing, kAdded, kMetrics, notifierVars, scenarioVars, schemaVars, epVars, runVars>>

\* export default function (), from one sleep to the next: a request, its
\* check(...) || errorRate.add(1), and sleep; the first step begins an
\* iteration, an exception of the check ends it, the last sleep completes it
RequestStep ==
    /\ kPc = "running"
    /\ kReq > 0 \/ kIterations < MaxIterations
    /\ \E first \in Draws(kScript, 1), second \in Draws(kScript, 2), r \in Responses :
         LET choice == Selected(kScript, first, second)
             requests == Requests(kScript, choice)
             at == IF kReq = 0 THEN 1 ELSE kReq
             failing == IF kReq = 0 THEN 0 ELSE kFailing
             added == IF kReq = 0 THEN 0 ELSE kAdded
             c == Check(r, Checks(kScript)[requests[at]])
         IN /\ kFailing' = IF c = "true" THEN failing ELSE failing + 1
            /\ kAdded' = IF c = "false" THEN added + 1 ELSE added
            /\ kErrors' = IF c = "false" THEN kErrors + 1 ELSE kErrors
            /\ kIter' = IF c = "throw" THEN "thrown"
                        ELSE IF at = Len(requests) THEN "slept" ELSE "running"
            /\ kReq' = IF c = "throw" \/ at = Len(requests) THEN 0 ELSE at + 1
            /\ kMetrics' =
                 [errors |-> IF c = "throw" THEN kMetrics.errors
                             ELSE kMetrics.errors \o ErrorSamples(c),
                  requestDuration |-> IF Records(kScript, choice)
                                      THEN Append(kMetrics.requestDuration, r.ms)
                                      ELSE kMetrics.requestDuration,
                  requestCount |-> IF Records(kScript, choice)
                                   THEN kMetrics.requestCount + 1
                                   ELSE kMetrics.requestCount,
                  requests |-> kMetrics.requests + 1,
                  falseChecks |-> IF c = "false" THEN kMetrics.falseChecks + 1
                                  ELSE kMetrics.falseChecks,
                  method |-> Methods(kScript)[requests[at]]]
    /\ kIterations' = IF kReq = 0 THEN kIterations + 1 ELSE kIterations
    /\ UNCHANGED <<kScript, kPc, kLiveness, kSetupGets, kTimeline, kStage, kElapsed,
                   notifierVars, scenarioVars, schemaVars, epVars, runVars>>

\* the executor ends a stage; after the last one the scenario is over
StageEnds ==
    /\ kPc = "running"
    /\ kStage = Len(Stages(kScript)) => kReq = 0
    /\ kElapsed' = kElapsed + Seconds(Stages(kScript)[kStage])
    /\ IF kStage = Len(Stages(kScript))
       THEN kPc' = "teardown" /\ kStage' = kStage
       ELSE kPc' = kPc /\ kStage' = kStage + 1
    /\ UNCHANGED <<kScript, kLiveness, kSetupGets, kTimeline, kIterations, kErrors, kReq,
                   kIter, kFailing, kAdded, kMetrics, notifierVars, scenarioVars, schemaVars,
                   epVars, runVars>>

\* export function teardown(data)
Teardown ==
    /\ kPc = "teardown"
    /\ kPc' = "done"
    /\ UNCHANGED <<kScript, kLiveness, kSetupGets, kTimeline, kStage, kElapsed, kIterations,
                   kErrors, kReq, kIter, kFailing, kAdded, kMetrics, notifierVars,
                   scenarioVars, schemaVars, epVars, runVars>>

NextLoad == Setup \/ RequestStep \/ StageEnds \/ Teardown

SpecLoad == InitLoad /\ [][NextLoad]_vars

(***************************************************************************)
(* Properties of the k6 scripts                                            *)
(***************************************************************************)
SetupDone == kPc \in {"running", "aborted", "teardown", "done"}

\* C18: in every script setup makes exactly one liveness request before any
\* stage executes, and when its status is not 200 setup throws, so that no
\* stage executes and no iteration runs.
C18_SetupChecksLiveness ==
    /\ ~SetupDone => kStage = 0 /\ kIterations = 0
    /\ SetupDone =>
          /\ kSetupGets = 1
          /\ kLiveness # 200 => kPc = "aborted" /\ kStage = 0 /\ kIterations = 0

\* C19: a request of an iteration that fails its checks is recorded in the
\* error rate and no error leaves the default function: the iteration runs
\* to its final sleep.
C19_FailuresRecordedNotRaised ==
    /\ kIter # "thrown"
    /\ kIter = "slept" => kAdded = kFailing

ClockSeconds(c) == c.m * 60 + c.s

RECURSIVE SecondsThrough(_, _)
SecondsThrough(stages, k) ==
    IF k = 0 THEN 0 ELSE SecondsThrough(stages, k - 1) + Seconds(stages[k])

\* every boundary that the logged timeline names is the cumulative sum of the
\* stage durations before it
BoundariesAreCumulative ==
    \A i \in 1..Len(kTimeline) :
       /\ ClockSeconds(kTimeline[i].from) = SecondsThrough(Stages(kScript), i - 1)
       /\ ClockSeconds(kTimeline[i].to) = SecondsThrough(Stages(kScript), i)

\* C20: the timeline that the spike script logs in setup agrees with its
\* stage table: every stage of the table is in the timeline, every boundary
\* is the cumulative sum of the stage durations before it, and the logged
\* end of the run is the sum of all stage durations.
C20_TimelineMatchesStages ==
    (kScript = "spike" /\ SetupDone) =>
        /\ Len(kTimeline) = Len(Stages(kScript))
        /\ BoundariesAreCumulative
        /\ ClockSeconds(kTimeline[Len(kTimeline)].to)
              = SecondsThrough(Stages(kScript), Len(Stages(kScript)))

\* the draws of one iteration of stress-test.js, all equally likely
DrawPairs == RandomDraws \X RandomDraws

\* of 100 equally likely draws, those after which the iteration issues the
\* method
Share(method) ==
    (100 * Cardinality({d \in DrawPairs : StressMethods[StressBranch(d[1], d[2])] = method}))
        \div Cardinality(DrawPairs)

\* C27: an iteration of the stress test issues a GET with probability 60%, a
\* POST with probability 30% and a PUT with probability 10%
C27_Weights60_30_10 ==
    kScript = "stress" /\ kMetrics.requests > 0 =>
        /\ kMetrics.method \in {"GET", "POST", "PUT"}
        /\ Share("GET") = 60
        /\ Share("POST") = 30
        /\ Share("PUT") = 10

\* C28: in the three scripts 'errors' receives one sample 1 for each check
\* that returned false and nothing else, so its non-zero samples are all of
\* its samples
C28_ErrorsOnlyOnes ==
    /\ \A i \in 1..Len(kMetrics.errors) : kMetrics.errors[i] = 1
    /\ Len(kMetrics.errors) = kMetrics.falseChecks
    /\ Len(kMetrics.errors) = kErrors
    /\ Cardinality({i \in 1..Len(kMetrics.errors) : kMetrics.errors[i] # 0})
         = Len(kMetrics.errors)

C28_Witness ==
    /\ kScript \in Scripts
    /\ kMetrics.requests >= 2
    /\ kMetrics.falseChecks = 1
    /\ kMetrics.errors = <<1>>

\* C29: in the stress test every iteration issues one request, adds one
\* sample to request_duration and one to request_count, whatever its branch:
\* request_count is the number of requests issued
C29_OneRequestPerIteration ==
    kScript = "stress" =>
        /\ kMetrics.requests = kIterations
        /\ kMetrics.requestCount = kMetrics.requests
        /\ Len(kMetrics.requestDuration) = kMetrics.requests

C29_Witness ==
    /\ kScript = "stress"
    /\ kIterations >= 2
    /\ kMetrics.requestCount = kIterations
    /\ kMetrics.method = "PUT"

(***************************************************************************)
(* requestWithRetry (tests/advanced/timeout-retry.spec.js): a loop of      *)
(* request.get calls with a setTimeout wait after a failed attempt.        *)
(***************************************************************************)
Answer(status) == [t |-> "response", status |-> status]

\* what request.get may yield: a response, or a rejection (transport error)
Outcomes == { Answer(st) : st \in {200, 404, 408, 429, 500, 503} } \cup {[t |-> "error"]}

\* if (response.status() >= 500) throw ...; a rejection is caught as well
AttemptFails(o) == o.t = "error" \/ o.status >= 500

RECURSIVE Pow2(_)
Pow2(n) == IF n = 0 THEN 1 ELSE 2 * Pow2(n - 1)

WaitTime_Linear(delay, attempt) == delay * attempt

\* const waitTime = delay * Math.pow(2, attempt - 1)
WaitTime(delay, attempt) == delay * Pow2(attempt - 1)

MoreAttempts_Always(attempt, maxRetries) == TRUE

\* if (attempt < maxRetries), which is also when attempt++ keeps the loop going
MoreAttempts(attempt, maxRetries) == attempt < maxRetries

InitRetry ==
    /\ qMax \in 1..MaxRetriesGiven
    /\ qDelay \in {100, 1000}
    /\ qPc = "request"
    /\ qAttempt = 1
    /\ qRequests = 0
    /\ qLast = [t |-> "none"]
    /\ qWaits = <<>>
    /\ qClock = 0
    /\ qFailedAt = 0
    /\ qResult = [t |-> "none"]
    /\ NotifierIdle
    /\ BaseIdle
    /\ FanIdle
    /\ FlowIdle
    /\ OthersIdle

\* await request.get(url, options) settles: return, or catch and wait, or
\* leave the loop and throw lastError
RequestSettles ==
    /\ qPc = "request"
    /\ \E o \in Outcomes, latency \in {10, 30} :
         /\ qRequests' = qRequests + 1
         /\ qLast' = o
         /\ qClock' = qClock + latency
         /\ IF ~AttemptFails(o)
            THEN /\ qResult' = [t |-> "returned", response |-> o, attempts |-> qAttempt]
                 /\ qPc' = "returned"
                 /\ UNCHANGED <<qAttempt, qWaits, qFailedAt>>
            ELSE /\ qFailedAt' = qClock + latency
                 /\ IF MoreAttempts(qAttempt, qMax)
                    THEN /\ qWaits' = Append(qWaits, WaitTime(qDelay, qAttempt))
                         /\ qPc' = "waiting"
                         /\ UNCHANGED <<qAttempt, qResult>>
                    ELSE /\ qResult' = [t |-> "thrown", error |-> o]
                         /\ qPc' = "thrown"
                         /\ qAttempt' = qAttempt + 1
                         /\ UNCHANGED qWaits
    /\ UNCHANGED <<qMax, qDelay, notifierVars, baseVars, otherVars, fanVars, flowVars>>

\* the timer of setTimeout(resolve, waitTime) fires, not before waitTime has
\* elapsed; attempt++ and the next attempt begins
TimerFires ==
    /\ qPc = "waiting"
    /\ \E late \in {0, 7} : qClock' = qClock + qWaits[Len(qWaits)] + late
    /\ qAttempt' = qAttempt + 1
    /\ qPc' = "request"
    /\ UNCHANGED <<qMax, qDelay, qRequests, qLast, qWaits, qFailedAt, qResult,
                   notifierVars, baseVars, otherVars, fanVars, flowVars>>

NextRetry == RequestSettles \/ TimerFires

SpecRetry == InitRetry /\ [][NextRetry]_vars

\* the request and the timer do settle
SpecRetryFair == SpecRetry /\ WF_vars(NextRetry)

(***************************************************************************)
(* Properties of requestWithRetry                                          *)
(***************************************************************************)
\* the retry strategy of the test 'retry strategy by status code', with a
\* transport error counted as retryable
ShouldRetry(o) ==
    IF o.t = "error" THEN TRUE
    ELSE IF o.status >= 500 THEN TRUE
    ELSE IF o.status = 429 THEN TRUE
    ELSE IF o.status = 408 THEN TRUE
    ELSE FALSE

\* C21: requestWithRetry retries exactly what the retry strategy marks
\* retryable: status >= 500, 429, 408 or a transport error lead to another
\* attempt while attempts remain; any other status is returned at once.
C21_RetriesWhatStrategyMarks ==
    /\ qPc = "returned" => ~ShouldRetry(qLast)
    /\ qPc = "waiting" => ShouldRetry(qLast)
    /\ qPc = "thrown" => ShouldRetry(qLast)
    /\ (qPc = "returned" /\ qRequests = 1) => qResult.attempts = 1

\* C22: after failed attempt n < maxRetries the wait is delay * 2^(n-1): the
\* waits start at delay and double (100, 200, 400, 800 for a base of 100),
\* attempt n+1 does not start before the wait has elapsed, and no wait
\* follows the last failed attempt.
C22_ExponentialBackoff ==
    /\ Len(qWaits) >= 1 => qWaits[1] = qDelay
    /\ \A n \in 1..(Len(qWaits) - 1) : qWaits[n + 1] = 2 * qWaits[n]
    /\ (qDelay = 100 /\ Len(qWaits) >= 4) => SubSeq(qWaits, 1, 4) = <<100, 200, 400, 800>>
    /\ Len(qWaits) <= qMax - 1
    /\ (qPc = "request" /\ qAttempt > 1) =>
          /\ Len(qWaits) = qAttempt - 1
          /\ qClock - qFailedAt >= qWaits[qAttempt - 1]
    /\ qPc = "thrown" => Len(qWaits) = qMax - 1 /\ qClock = qFailedAt

C22_Witness ==
    /\ qPc = "thrown"
    /\ qMax = 5
    /\ qDelay = 100
    /\ qWaits = <<100, 200, 400, 800>>

RetryDone == qPc \in {"returned", "thrown"}

AtMostMaxRetries ==
    /\ qRequests <= qMax
    /\ qPc \in {"request", "waiting"} => Len(qWaits) = qRequests
    /\ qPc = "returned" =>
          /\ qLast.t = "response" /\ qLast.status < 500
          /\ qResult.response = qLast
          /\ qResult.attempts = qRequests
          /\ Len(qWaits) = qRequests - 1
    /\ qPc = "thrown" =>
          /\ qRequests = qMax
          /\ qResult.error = qLast
          /\ qLast.t = "error" \/ qLast.status >= 500

\* C23: with maxRetries >= 1 the call terminates after at most maxRetries
\* requests: it returns at the first attempt whose response has a status
\* below 500, with attempts the number of requests made, and throws the last
\* error after exactly maxRetries requests when every attempt failed.
C23_TerminatesWithinMaxRetries == []AtMostMaxRetries /\ <>RetryDone

C23_Witness ==
    /\ qPc = "thrown"
    /\ qMax = 3
    /\ qRequests = 3
    /\ qResult.error = Answer(503)

(***************************************************************************)
(* The parallel test cases (tests/advanced/concurrency.spec.js): N         *)
(* requests issued at once, await Promise.all(promises), then assertions.  *)
(***************************************************************************)
Pending == [t |-> "pending"]

\* the response to the i-th request (the resource it asked for) and a
\* rejected request
Settlements(i) ==
    { [t |-> "response", for |-> i, status |-> st] : st \in {200, 500} }
    \cup {[t |-> "rejected", for |-> i]}

AllFulfilled(settled) == \A i \in 1..Len(settled) : settled[i].t = "response"

Collect_ByCompletion(settled, order) == [k \in 1..Len(settled) |-> settled[order[k]]]

\* the value of Promise.all: the values of the promises in the order of the
\* array given, not of completion
Collect(settled, order) == [i \in 1..Len(settled) |-> settled[i]]

InitFan ==
    /\ fN \in 1..MaxFanOut
    /\ fPc = "awaiting"
    /\ fSettled = [i \in 1..fN |-> Pending]
    /\ fOrder = <<>>
    /\ fResponses = <<>>
    /\ NotifierIdle
    /\ BaseIdle
    /\ RetryIdle
    /\ FlowIdle
    /\ OthersIdle

\* a request completes; Promise.all rejects at the first rejection, which
\* fails the case, and fulfils when the last request is fulfilled
Settles ==
    /\ \E i \in 1..fN :
         /\ fSettled[i] = Pending
         /\ \E v \in Settlements(i) :
              LET settled == [fSettled EXCEPT ![i] = v]
                  order == Append(fOrder, i)
              IN /\ fSettled' = settled
                 /\ fOrder' = order
                 /\ IF fPc # "awaiting"
                    THEN UNCHANGED <<fPc, fResponses>>
                    ELSE IF v.t = "rejected"
                    THEN fPc' = "failed" /\ UNCHANGED fResponses
                    ELSE IF AllFulfilled(settled)
                    THEN fPc' = "asserting" /\ fResponses' = Collect(settled, order)
                    ELSE UNCHANGED <<fPc, fResponses>>
    /\ UNCHANGED <<fN, notifierVars, baseVars, otherVars, retryVars, flowVars>>

\* responses.forEach(... expect(response.status()).toBe(200)) and
\* expect(data.id).toBe(i + 1) for every i
Asserts ==
    /\ fPc = "asserting"
    /\ fPc' = IF \A i \in 1..fN : fResponses[i].status = 200 /\ fResponses[i].for = i
              THEN "passed" ELSE "failed"
    /\ UNCHANGED <<fN, fSettled, fOrder, fResponses, notifierVars, baseVars, otherVars, retryVars, flowVars>>

NextFan == Settles \/ Asserts

SpecFan == InitFan /\ [][NextFan]_vars


(***************************************************************************)
(* The E2E workflow cases (tests/e2e): create, then read, update, delete   *)
(* and verify, each request awaited before the next.                       *)
(***************************************************************************)
FlowStep(name, endpoint, call, allowed) ==
    [name |-> name, endpoint |-> endpoint, call |-> call, allowed |-> allowed]

\* the requests of a case in program order: the endpoint name read from the
\* registry and the statuses that the expectation on the response admits
FlowSteps(kind) ==
    CASE kind = "pet" ->
           <<FlowStep("create", "pet", FALSE, {200, 400, 405}),
             FlowStep("read", "petById", TRUE, {200, 404}),
             FlowStep("update", "pet", FALSE, {200, 400, 404, 405}),
             FlowStep("delete", "petById", TRUE, {200, 404}),
             FlowStep("verify", "petById", TRUE, {404})>>
      [] kind = "order" ->
           <<FlowStep("create", "storeOrder", FALSE, {200, 400}),
             FlowStep("read", "storeOrderById", TRUE, {200, 404}),
             FlowStep("delete", "storeOrderById", TRUE, {200, 404}),
             FlowStep("verify", "storeOrderById", TRUE, {404})>>
      [] kind = "user" ->
           <<FlowStep("create", "users", FALSE, {200, 201, 401}),
             FlowStep("read", "user", TRUE, {200, 404}),
             FlowStep("update", "user", TRUE, {200}),
             FlowStep("patch", "user", TRUE, {200}),
             FlowStep("delete", "user", TRUE, {204})>>

FlowService(kind) == IF kind = "user" THEN "reqres" ELSE "petstore"

FlowStatuses == {200, 201, 204, 400, 401, 404, 500}

GoesOn_Always(kind, status) == TRUE

\* if (createResponse.status() !== 200) return;  for ReqRes: === 401
GoesOn(kind, status) == IF kind = "user" THEN status # 401 ELSE status = 200

InitFlow ==
    /\ wKind \in {"pet", "order", "user"}
    /\ wStep = 1
    /\ wIssued = <<>>
    /\ wStatuses = <<>>
    /\ wEnd = "running"
    /\ NotifierIdle
    /\ BaseIdle
    /\ RetryIdle
    /\ FanIdle
    /\ OthersIdle

\* the URL of the step is built and its request issued; a path function
\* that the registry lacks throws before any request
IssueStep ==
    /\ wEnd = "running"
    /\ Len(wIssued) = wStep - 1
    /\ LET step == FlowSteps(wKind)[wStep]
           url == BuildUrl(Read(FlowService(wKind), step.endpoint, step.call, "test"), N(2))
       IN IF url.t = "TypeError"
          THEN wEnd' = "failed" /\ UNCHANGED wIssued
          ELSE wIssued' = Append(wIssued, step.name) /\ UNCHANGED wEnd
    /\ UNCHANGED <<wKind, wStep, wStatuses, notifierVars, baseVars, otherVars, retryVars, fanVars>>

\* the awaited response arrives: the expectation on its status, the early
\* return after create, then on to the next step or the end of the case
StepAnswered ==
    /\ wEnd = "running"
    /\ Len(wIssued) = wStep
    /\ \E status \in FlowStatuses :
         LET step == FlowSteps(wKind)[wStep]
         IN /\ wStatuses' = Append(wStatuses, status)
            /\ IF status \notin step.allowed
               THEN wEnd' = "failed" /\ UNCHANGED wStep
               ELSE IF wStep = 1 /\ ~GoesOn(wKind, status)
               THEN wEnd' = "returned" /\ UNCHANGED wStep
               ELSE IF wStep = Len(FlowSteps(wKind))
               THEN wEnd' = "completed" /\ UNCHANGED wStep
               ELSE wStep' = wStep + 1 /\ UNCHANGED wEnd
    /\ UNCHANGED <<wKind, wIssued, notifierVars, baseVars, otherVars, retryVars, fanVars>>

NextFlow == IssueStep \/ StepAnswered

SpecFlow == InitFlow /\ [][NextFlow]_vars

(***************************************************************************)
(* Properties of the parallel test cases                                   *)
(***************************************************************************)
\* C24: whatever the order of completion, responses[i] is the response to
\* the i-th request issued, the assertions run only once all N requests have
\* completed, and the rejection of any request fails the case.
C24_PromiseAllKeepsIssueOrder ==
    /\ fPc \in {"asserting", "passed"} =>
          /\ Len(fOrder) = fN
          /\ AllFulfilled(fSettled)
          /\ \A i \in 1..fN : fResponses[i].for = i /\ fResponses[i] = fSettled[i]
    /\ fResponses # <<>> => Len(fOrder) = fN
    /\ (\E i \in 1..fN : fSettled[i].t = "rejected") => fPc = "failed"

C24_Witness ==
    /\ fN = 3
    /\ fOrder = <<3, 1, 2>>
    /\ fPc = "passed"
    /\ fResponses[1].for = 1

(***************************************************************************)
(* Properties of the E2E workflow cases                                    *)
(***************************************************************************)
CreateAnswered == Len(wStatuses) >= 1

CreateSucceeded ==
    IF wKind = "user" THEN wStatuses[1] # 401 ELSE wStatuses[1] = 200

StepRank(name) ==
    CASE name = "create" -> 1 [] name = "read" -> 2 [] name = "update" -> 3
      [] name = "patch" -> 4 [] name = "delete" -> 5 [] name = "verify" -> 6

\* C25: when the create step does not succeed (a status other than 200 for
\* PetStore, 401 for ReqRes) the case ends with no read, update, delete or
\* verify request; later steps are issued only after a successful create,
\* one at a time, in the order read, update, delete, verify.
C25_LaterStepsOnlyAfterCreate ==
    /\ (CreateAnswered /\ ~CreateSucceeded) => wIssued = <<"create">> /\ wEnd # "running"
    /\ Len(wIssued) >= 2 => CreateAnswered /\ CreateSucceeded
    /\ Len(wIssued) >= 1 => wIssued[1] = "create"
    /\ \A i \in 1..(Len(wIssued) - 1) : StepRank(wIssued[i]) < StepRank(wIssued[i + 1])
    /\ Len(wIssued) - Len(wStatuses) \in {0, 1}

C25_Witness ==
    /\ wKind = "pet"
    /\ wEnd = "completed"
    /\ wIssued = <<"create", "read", "update", "delete", "verify">>
    /\ wStatuses = <<200, 200, 200, 200, 404>>

(***************************************************************************)
(* The paginated browse (tests/e2e, 'E2E - complex business flows'): a     *)
(* while loop that requests /posts page by page and concatenates the       *)
(* pages.                                                                  *)
(***************************************************************************)
\* the pages the loop requests at most
MaxPages == 5

PageAnswer(status, body) == [status |-> status, body |-> body]

\* what the server may answer to a page request: an empty array, arrays of 3
\* and of 10 posts, a JSON object that is not an array, an error
PageAnswers ==
    {PageAnswer(200, "empty"), PageAnswer(200, "three"), PageAnswer(200, "ten"),
     PageAnswer(200, "object"), PageAnswer(500, "object")}

\* posts.length
PostsLength(body) ==
    CASE body = "empty" -> N(0)
      [] body = "three" -> N(3)
      [] body = "ten" -> N(10)
      [] body = "object" -> Undefined

LoopGoesOn_OneMore(hasMore, page) == hasMore /\ page <= MaxPages + 1

\* while (hasMore && page <= 5)
LoopGoesOn(hasMore, page) == hasMore /\ page <= MaxPages

InitBrowse ==
    /\ bPage = 1
    /\ bHasMore = TRUE
    /\ bPc = "loop"
    /\ bRequested = <<>>
    /\ bAnswers = <<>>
    /\ bAllPosts = <<>>
    /\ IdsIdle
    /\ NotifierIdle
    /\ BaseIdle
    /\ RetryIdle
    /\ FanIdle
    /\ FlowIdle

\* the loop test holds: request.get(..., { params: { _page: page, _limit } })
RequestPage ==
    /\ bPc = "loop"
    /\ LoopGoesOn(bHasMore, bPage)
    /\ bRequested' = Append(bRequested, bPage)
    /\ bPc' = "await"
    /\ UNCHANGED <<bPage, bHasMore, bAnswers, bAllPosts, idVars, notifierVars, baseVars,
                   retryVars, fanVars, flowVars>>

\* the response arrives: expect(status).toBe(200), then the empty page ends
\* the loop and any other page is concatenated and the page advanced
PageAnswered ==
    /\ bPc = "await"
    /\ \E a \in PageAnswers :
         /\ bAnswers' = Append(bAnswers, a)
         /\ IF a.status # 200
            THEN bPc' = "failed" /\ UNCHANGED <<bPage, bHasMore, bAllPosts>>
            ELSE /\ bPc' = "loop"
                 /\ IF PostsLength(a.body) = N(0)
                    THEN bHasMore' = FALSE /\ UNCHANGED <<bPage, bAllPosts>>
                    ELSE /\ bAllPosts' = Append(bAllPosts, a.body)
                         /\ bPage' = bPage + 1
                         /\ bHasMore' = bHasMore
    /\ UNCHANGED <<bRequested, idVars, notifierVars, baseVars, retryVars, fanVars, flowVars>>

\* the loop test fails: the summary is logged and the case ends
LoopEnds ==
    /\ bPc = "loop"
    /\ ~LoopGoesOn(bHasMore, bPage)
    /\ bPc' = "done"
    /\ UNCHANGED <<bPage, bHasMore, bRequested, bAnswers, bAllPosts, idVars, notifierVars,
                   baseVars, retryVars, fanVars, flowVars>>

NextBrowse == RequestPage \/ PageAnswered \/ LoopEnds

SpecBrowse == InitBrowse /\ [][NextBrowse]_vars

\* the response of a request that is out arrives, the code between two awaits runs
SpecBrowseFair == SpecBrowse /\ WF_vars(NextBrowse)

(***************************************************************************)
(* generatePetId (tests/petstore/pet.spec.js), called by the beforeAll of  *)
(* each run and worker.                                                    *)
(***************************************************************************)
\* calls of generatePetId that are followed
MaxCalls == 3

\* most ms that pass between two calls of generatePetId
MaxTick == 2

\* Math.floor(Math.random() * 1000000): the least values and the greatest
RandomParts == {0, 1, 2, 999999}

\* Math.floor(Math.random() * 1000000) + Date.now()
PetId(part, now) == part + now

InitIds ==
    /\ gNow = 0
    /\ gIds = <<>>
    /\ BrowseIdle
    /\ NotifierIdle
    /\ BaseIdle
    /\ RetryIdle
    /\ FanIdle
    /\ FlowIdle

\* testPetId = generatePetId(), some ms after the call before
GeneratePetId ==
    /\ Len(gIds) < MaxCalls
    /\ \E tick \in 0..MaxTick, part \in RandomParts :
         /\ gNow' = (IF gIds = <<>> THEN 0 ELSE gNow + tick)
         /\ gIds' = Append(gIds, PetId(part, gNow'))
    /\ UNCHANGED <<browseVars, notifierVars, baseVars, retryVars, fanVars, flowVars>>

NextIds == GeneratePetId

SpecIds == InitIds /\ [][NextIds]_vars

(***************************************************************************)
(* Properties of the paginated browse                                      *)
(***************************************************************************)
BrowseOver == bPc \in {"done", "failed"}

EmptyPage(a) == a.status = 200 /\ PostsLength(a.body) = N(0)

PagesInOrder ==
    /\ \A i \in 1..Len(bRequested) : bRequested[i] = i
    /\ Len(bRequested) <= MaxPages
    /\ Len(bAllPosts) <= MaxPages
    /\ Len(bAllPosts) <= Len(bRequested)
    /\ \A i \in 1..Len(bAnswers) : EmptyPage(bAnswers[i]) => Len(bRequested) = i
    /\ bPc = "done" =>
         \/ Len(bRequested) = MaxPages
         \/ Len(bAnswers) > 0 /\ EmptyPage(bAnswers[Len(bAnswers)])

\* C26: the paginated browse ends whatever the server answers; it requests
\* the pages 1, 2, ... in order and none twice, requests nothing after the
\* first empty page, and issues at most 5 requests, so at most 5 pages are
\* accumulated
C26_BrowseTerminates == []PagesInOrder /\ <>BrowseOver

C26_Witness ==
    /\ bPc = "done"
    /\ bRequested = <<1, 2, 3, 4, 5>>
    /\ Len(bAllPosts) = MaxPages

(***************************************************************************)
(* Properties of generatePetId                                             *)
(***************************************************************************)
\* C30: any two calls of generatePetId, at the same time or at different
\* times, return distinct ids
C30_IdsDistinct ==
    \A i \in 1..Len(gIds) : \A j \in 1..Len(gIds) : i # j => gIds[i] # gIds[j]

====
